---- MODULE Spec2Model ----
(***************************************************************************)
(* A model of the Odesli Telegram bot (tg_odesli_bot/bot.py): extraction   *)
(* of song links from a text, their resolution through the Odesli API with *)
(* a cache, a retry budget and a throttle gate, merging of the results and *)
(* the reply of handle_message / handle_inline_query, the connection to    *)
(* Telegram at startup, and the configuration loader of the package under  *)
(* its earlier name (group_songlink_bot/config.py).                        *)
(*                                                                         *)
(* Eleven specifications share the definitions below:                      *)
(*   Spec         one message or inline query after the other, from the    *)
(*                text to the reply; the resolutions of one message run    *)
(*                to completion one at a time, in any order;               *)
(*   SpecExtract  extract_song_urls alone, over a larger set of texts;     *)
(*   SpecMerge    _merge_same_songs alone, over tuples of SongInfos;       *)
(*   SpecPass     _merge_same_songs applied once, each song with a title   *)
(*                of its own, a link possibly twice in the message;        *)
(*   SpecReply    handle_message from the return of gather on, over texts  *)
(*                where a link stands twice or begins with another one;    *)
(*   SpecProcess  one 200 response handled by find_song_by_url, over the   *)
(*                bodies the schema admits;                                *)
(*   SpecConfig   Config.load_config of group_songlink_bot/config.py;      *)
(*   SpecStart    the connection to Telegram at startup and its retries;   *)
(*   SpecResolve  concurrent find_song_by_url tasks, every interleaving    *)
(*                of their await points, over a shared cache and gate;     *)
(*   SpecThrottle the same tasks with the history of the responses they    *)
(*                handle and of the gate;                                  *)
(*   SpecFair     the same tasks, unbounded, under fair scheduling.        *)
(***************************************************************************)
EXTENDS Integers, Sequences, FiniteSets, TLC

VARIABLES
    dotenv,      \* the .env file: environment variable -> value
    environ,     \* os.environ: environment variable -> value
    config,      \* the Config object load_config returned
    startup,     \* _start: its position, _tg_retries and its settings
    msg,         \* the message / inline query being handled
    phase,       \* the handler: "idle", "gather", "delete", "returned"
    song_urls,   \* _find_songs: the extracted SongUrl list
    tasks,       \* find_song_by_url coroutines: task id -> local state
    cache,       \* aiocache store: normalized URL -> cached SongInfo
    api_ready,   \* the asyncio.Event _api_ready (TRUE: set)
    song_infos,  \* the merged SongInfo tuple _find_songs returned
    raised,      \* exception that left the handler ("none" when it returned)
    outbox,      \* calls made on the Telegram side for the current message
    looked_up,   \* history: a cache.get was awaited for the current message
    requested,   \* history: a session.get was issued for the current message
    calls,       \* history: task id -> network requests it has issued
    earlier,     \* history: task id -> requests issued by the resolution of
                 \* the same song that had succeeded when the task started
                 \* and has not expired since, -1 when there is none
    resolved,    \* history: song -> requests issued by its last successful
                 \* resolution, for the songs resolved and not expired since
    throttle,    \* history: task id -> the 429 responses the resolution has
                 \* handled, the clear / sleep / set cycles it has completed,
                 \* and whether it has waited at the closed gate
    answered     \* history: the response handled by the last step

vars == <<dotenv, environ, config, startup, msg, phase, song_urls, tasks,
          cache, api_ready, song_infos, raised, outbox, looked_up, requested,
          calls, earlier, resolved, throttle, answered>>

(***************************************************************************)
(* Bounds of the model.                                                    *)
(***************************************************************************)
\* Longest text of Spec, in tokens (words and links).
MaxTokens == 2
\* Longest text of SpecExtract, in tokens.
MaxExtractTokens == 3
\* SpecResolve: the most requests one resolution issues.
MaxCalls == 2
\* SpecProcess: the most entities of a response.
MaxEntities == 3
\* SpecStart: the greatest TG_MAX_RETRIES and TG_RETRY_TIME.
MaxTgRetries == 3
MaxRetryTime == 2

\* Entries handed to _merge_same_songs at most.
MaxInfos == 4

(***************************************************************************)
(* Program constants.                                                      *)
(***************************************************************************)
API_MAX_RETRIES == 5

SKIP_MARK == "!skip"
NOT_FOUND_TEXT == "Sorry, Odesli couldn't find that song"

HTTP_OK == 200
HTTP_NOT_FOUND == 404
HTTP_TOO_MANY_REQUESTS == 429
HTTP_INTERNAL_SERVER_ERROR == 500

\* Python's None for the optional string attributes.
None == "None"
\* A key that a JSON object of the service does not hold.
Missing == "<missing>"

(***************************************************************************)
(* platforms.py: the registry.  PLATFORMS is a dict filled by              *)
(* __init_subclass__ in class definition order; a sequence keeps that      *)
(* order.                                                                  *)
(***************************************************************************)
PLATFORMS ==
    << [key |-> "deezer",       name |-> "Deezer",        order |-> 0],
       [key |-> "soundcloud",   name |-> "SoundCloud",    order |-> 1],
       [key |-> "yandex",       name |-> "Yandex Music",  order |-> 2],
       [key |-> "spotify",      name |-> "Spotify",       order |-> 3],
       [key |-> "youtubeMusic", name |-> "YouTube Music", order |-> 4],
       [key |-> "youtube",      name |-> "YouTube",       order |-> 5],
       [key |-> "appleMusic",   name |-> "Apple Music",   order |-> 6],
       [key |-> "tidal",        name |-> "Tidal",         order |-> 7],
       [key |-> "bandcamp",     name |-> "Bandcamp",      order |-> 8] >>

PlatformKeys == {PLATFORMS[k].key : k \in 1..Len(PLATFORMS)}

PlatformOf(key) ==
    PLATFORMS[CHOOSE k \in 1..Len(PLATFORMS) : PLATFORMS[k].key = key]

(***************************************************************************)
(* Texts.  A text is a sequence of whitespace-separated tokens: plain      *)
(* words, the skip marker, and URLs.  A URL is the record of what the      *)
(* platform patterns and normalize_url read of it: the platform whose      *)
(* url_re matches it, the digits of its track id and whether its query     *)
(* string holds a utm_ parameter.  A footnote "[n]" is a token of the      *)
(* substituted text only.                                                  *)
(***************************************************************************)
NoUrl == [p |-> "", id |-> <<>>, utm |-> FALSE]

Url(p, id, utm) == [p |-> p, id |-> id, utm |-> utm]

Word == [t |-> "word", u |-> NoUrl, n |-> 0]
SkipWord == [t |-> "skip", u |-> NoUrl, n |-> 0]
Link(u) == [t |-> "url", u |-> u, n |-> 0]
Footnote(n) == [t |-> "fn", u |-> NoUrl, n |-> n]

d1 == Url("deezer", <<1>>, FALSE)
d1u == Url("deezer", <<1>>, TRUE)
d2 == Url("deezer", <<2>>, FALSE)
d12 == Url("deezer", <<1, 2>>, FALSE)
s1 == Url("spotify", <<1>>, FALSE)
y1 == Url("youtube", <<1>>, FALSE)

RECURSIVE SeqsUpTo(_, _)
SeqsUpTo(S, n) ==
    IF n = 0 THEN {<<>>}
    ELSE LET shorter == SeqsUpTo(S, n - 1)
         IN  shorter \cup {Append(s, x) : s \in shorter, x \in S}

\* Spec: the tokens of a message.
Tokens == {Word, SkipWord, Link(d1), Link(s1), Link(y1)}
Texts == SeqsUpTo(Tokens, MaxTokens)

\* SpecExtract: the tokens of a text.
ExtractTokens == {Word, Link(d1), Link(d2), Link(s1), Link(y1)}
ExtractTexts == SeqsUpTo(ExtractTokens, MaxExtractTokens)

\* `SKIP_MARK in message.text`
HasSkipMark(text) == \E k \in 1..Len(text) : text[k].t = "skip"

(***************************************************************************)
(* extract_song_urls                                                       *)
(***************************************************************************)
SongUrl(platform, url) ==
    [platform_key |-> platform.key, platform_name |-> platform.name,
     url |-> url]

\* platform.url_re.finditer(text): the matches of one platform, left to
\* right.
finditer(platform, text) ==
    LET found == SelectSeq(text,
                     LAMBDA tok : tok.t = "url" /\ tok.u.p = platform.key)
    IN  [k \in 1..Len(found) |-> SongUrl(platform, found[k].u)]

RECURSIVE extract_from(_, _, _)
extract_from(k, text, skip_youtube) ==
    IF k > Len(PLATFORMS) THEN <<>>
    ELSE (IF skip_youtube /\ PLATFORMS[k].key = "youtube"
          THEN <<>>
          ELSE finditer(PLATFORMS[k], text))
         \o extract_from(k + 1, text, skip_youtube)

\* A variant of extract_song_urls that walks the text once and takes the links as they come.
extract_in_text_order(text, skip_youtube) ==
    LET found == SelectSeq(text,
                     LAMBDA tok : /\ tok.t = "url"
                                  /\ ~(skip_youtube /\ tok.u.p = "youtube"))
    IN  [k \in 1..Len(found) |-> SongUrl(PlatformOf(found[k].u.p), found[k].u)]

extract_song_urls(text, skip_youtube) == extract_from(1, text, skip_youtube)

\* A variant of normalize_url that keeps the query string as it is.
keep_url(url) == url

(***************************************************************************)
(* normalize_url: strip the utm_ parameters of the query string.           *)
(***************************************************************************)
normalize_url(url) == [url EXCEPT !.utm = FALSE]

(***************************************************************************)
(* SongInfo and the results of find_song_by_url.                           *)
(*                                                                         *)
(* urls is the dict {platform name: url} as the sequence of its items in   *)
(* insertion order.  None and {} are both <<>>: every read of urls in      *)
(* bot.py is a truth test, `urls or {}`, or len() of a truthy urls.        *)
(***************************************************************************)
SongInfo(ids, title, artist, urls, thumbnail_url, urls_in_text) ==
    [ids |-> ids, title |-> title, artist |-> artist, urls |-> urls,
     thumbnail_url |-> thumbnail_url, urls_in_text |-> urls_in_text]

\* SongInfo(set(), None, None, None, None, {song_url.url})
EmptySongInfo(url) == SongInfo({}, None, None, <<>>, None, {url})

\* SongInfo.__bool__
Truthy(song_info) == song_info.ids # {}

\* What a finished find_song_by_url task hands to asyncio.gather: a SongInfo
\* or the exception that ended it.  status_code 0 stands for None.
NoResult == [kind |-> "pending", status_code |-> 0, song |-> EmptySongInfo(NoUrl)]
Returned(song_info) == [kind |-> "SongInfo", status_code |-> 0, song |-> song_info]
Raised(kind, status_code) ==
    [kind |-> kind, status_code |-> status_code, song |-> EmptySongInfo(NoUrl)]

(***************************************************************************)
(* The Odesli service.  A response is a status and, for 200, a JSON body:  *)
(* entitiesByUniqueId and linksByPlatform as sequences in document order.  *)
(***************************************************************************)
Entity(id, title, artistName, thumbnailUrl) ==
    [id |-> id, title |-> title, artistName |-> artistName,
     thumbnailUrl |-> thumbnailUrl]

PlatformLink(key, url) == [key |-> key, url |-> url]

Body(well_formed, entities, links) ==
    [well_formed |-> well_formed, entities |-> entities, links |-> links]

\* What the service knows of a song URL.  The three songs overlap in their
\* identifiers as a chain: deezer/1 ~ spotify/1 ~ youtube/1.
SongBody(key) ==
    CASE key = d1 ->
           Body(TRUE,
                << Entity("D1", "Title 1", Missing, "http://thumb1"),
                   Entity("X1", "Title 1", "Artist 1", Missing) >>,
                << PlatformLink("spotify", "https://www.test.com/s"),
                   PlatformLink("amazonMusic", "https://www.test.com/a"),
                   PlatformLink("deezer", "https://www.test.com/d") >>)
      [] key = s1 ->
           Body(TRUE,
                << Entity("X1", "Title 1", "Artist 1", Missing),
                   Entity("Y1", "Title 1", "Artist 1", "http://thumb2") >>,
                << PlatformLink("spotify", "https://www.test.com/s"),
                   PlatformLink("youtube", "https://www.test.com/y") >>)
      [] key = y1 ->
           Body(TRUE,
                << Entity("Y1", "Video 1", "Artist 1", Missing) >>,
                << PlatformLink("youtube", "https://www.test.com/y") >>)
      [] OTHER ->
           Body(TRUE,
                << Entity("D2", "Title 2", "Artist 2", Missing) >>,
                << PlatformLink("deezer", "https://www.test.com/d2") >>)

\* {'invalid': 'invalid'}: the required keys are not there.
InvalidBody == Body(FALSE, <<>>, <<>>)

\* A valid body whose first entity has no title.
NoTitleBody(key) ==
    LET b == SongBody(key)
    IN  [b EXCEPT !.entities[1].title = Missing]

\* A valid body with an empty entitiesByUniqueId.
NoSongsBody(key) == [SongBody(key) EXCEPT !.entities = <<>>]

Response(status, body) == [status |-> status, body |-> body]

\* The answers the service may give to a request for `key`: every link may
\* be known or unknown to it, the deezer links also meet a server error, the
\* rate limit and an entity without a title, the spotify links a body that
\* is not of the schema and a body without entities.
Responses(key) ==
    { Response(HTTP_OK, SongBody(key)),
      Response(HTTP_NOT_FOUND, InvalidBody) }
    \cup ( IF key.p = "deezer"
           THEN { Response(HTTP_INTERNAL_SERVER_ERROR, InvalidBody),
                  Response(HTTP_TOO_MANY_REQUESTS, InvalidBody),
                  Response(HTTP_OK, NoTitleBody(key)) }
           ELSE {} )
    \cup ( IF key.p = "spotify"
           THEN { Response(HTTP_OK, InvalidBody),
                  Response(HTTP_OK, NoSongsBody(key)) }
           ELSE {} )

(***************************************************************************)
(* schemas.py: ApiResponseSchema(unknown='EXCLUDE').load                   *)
(***************************************************************************)
\* SongSchema: artist defaults to '<Unknown>', title and thumbnail_url stay
\* absent when the entity does not hold them.
SongSchema(entity) ==
    [id |-> entity.id,
     title |-> entity.title,
     artist |-> IF entity.artistName = Missing THEN "<Unknown>"
                ELSE entity.artistName,
     thumbnail_url |-> entity.thumbnailUrl]

\* ValidationError when a required field is missing.
SchemaValid(body) ==
    /\ body.well_formed
    /\ \A k \in 1..Len(body.entities) : body.entities[k].id # Missing

ApiResponseSchema(body) ==
    [songs |-> [k \in 1..Len(body.entities) |-> SongSchema(body.entities[k])],
     links |-> body.links]

(***************************************************************************)
(* _filter_platform_urls                                                   *)
(***************************************************************************)
HasKey(items, key) == \E k \in 1..Len(items) : items[k].key = key

ValueOf(items, key) ==
    items[CHOOSE k \in 1..Len(items) :
              /\ items[k].key = key
              /\ \A j \in (k + 1)..Len(items) : items[j].key # key].url

\* The (order, name, url) triples of the registered platforms, in registry
\* iteration order.
RECURSIVE registered_urls(_, _)
registered_urls(k, platform_urls) ==
    IF k > Len(PLATFORMS) THEN <<>>
    ELSE (IF HasKey(platform_urls, PLATFORMS[k].key)
          THEN << [order |-> PLATFORMS[k].order, name |-> PLATFORMS[k].name,
                   url |-> ValueOf(platform_urls, PLATFORMS[k].key)] >>
          ELSE <<>>)
         \o registered_urls(k + 1, platform_urls)

\* sorted(urls, key=lambda x: x[0]): a stable sort by order.
RECURSIVE sorted_by_order(_)
sorted_by_order(urls) ==
    IF urls = <<>> THEN <<>>
    ELSE LET least == CHOOSE k \in 1..Len(urls) :
                          /\ \A j \in 1..Len(urls) : urls[k].order <= urls[j].order
                          /\ \A j \in 1..(k - 1) : urls[j].order # urls[k].order
             rest == [j \in 1..(Len(urls) - 1) |->
                          IF j < least THEN urls[j] ELSE urls[j + 1]]
         IN  <<urls[least]>> \o sorted_by_order(rest)

_filter_platform_urls(platform_urls) ==
    LET urls == sorted_by_order(registered_urls(1, platform_urls))
    IN  [k \in 1..Len(urls) |-> [name |-> urls[k].name, url |-> urls[k].url]]

(***************************************************************************)
(* process_api_response                                                    *)
(***************************************************************************)
Count(seq, x) == Cardinality({k \in 1..Len(seq) : seq[k] = x})

\* A variant of most_common that takes the value seen first.
first_seen(seq) == seq[1]

\* Counter(seq).most_common(1)[0][0]: a most frequent value, the first seen
\* among equals.  Not defined for an empty seq (IndexError).
most_common(seq) ==
    seq[CHOOSE k \in 1..Len(seq) :
            /\ \A j \in 1..Len(seq) : Count(seq, seq[j]) <= Count(seq, seq[k])
            /\ \A j \in 1..(k - 1) : Count(seq, seq[j]) < Count(seq, seq[k])]

\* The first non-empty thumbnail_url, else None.
first_thumbnail(songs) ==
    LET with == {k \in 1..Len(songs) : songs[k].thumbnail_url \notin {Missing, ""}}
    IN  IF with = {} THEN None
        ELSE songs[CHOOSE k \in with : \A j \in with : k <= j].thumbnail_url

\* The SongInfo, or the exception the function ends with: KeyError at
\* song_entity['title'] of an entity without a title, IndexError at
\* most_common(1)[0] when there is no entity.
process_api_response(data, url) ==
    LET songs == data.songs
        titles == [k \in 1..Len(songs) |-> songs[k].title]
        artists == [k \in 1..Len(songs) |-> songs[k].artist]
    IN  IF \E k \in 1..Len(songs) : songs[k].title = Missing
        THEN Raised("KeyError", 0)
        ELSE IF songs = <<>>
        THEN Raised("IndexError", 0)
        ELSE Returned(SongInfo({songs[k].id : k \in 1..Len(songs)},
                               most_common(titles),
                               most_common(artists),
                               _filter_platform_urls(data.links),
                               first_thumbnail(songs),
                               {url}))

(***************************************************************************)
(* _merge_same_songs.  The two nested loops of the code, with its          *)
(* assignments to song_info1 made in place: ids1 is bound once per outer   *)
(* iteration, before the inner loop, and the inner loop runs over every    *)
(* index, earlier ones included.                                           *)
(***************************************************************************)
HasName(urls, name) == \E k \in 1..Len(urls) : urls[k].name = name

UrlOfName(urls, name) ==
    urls[CHOOSE k \in 1..Len(urls) : urls[k].name = name].url

\* {**urls1, **urls2}: the keys of urls1 in their order, then the new keys
\* of urls2 in theirs; on a shared key the value of urls2.
dict_merge(urls1, urls2) ==
    [k \in 1..Len(urls1) |->
        IF HasName(urls2, urls1[k].name)
        THEN [name |-> urls1[k].name, url |-> UrlOfName(urls2, urls1[k].name)]
        ELSE urls1[k]]
    \o SelectSeq(urls2, LAMBDA item : ~HasName(urls1, item.name))

RECURSIVE merge_inner(_, _, _, _, _)
merge_inner(infos, merged, idx1, ids1, idx2) ==
    IF idx2 > Len(infos) THEN [infos |-> infos, merged |-> merged]
    ELSE IF idx2 = idx1 \/ idx2 \in merged \/ ~Truthy(infos[idx2])
    THEN merge_inner(infos, merged, idx1, ids1, idx2 + 1)
    ELSE IF ids1 \cap infos[idx2].ids # {}
    THEN LET song_info1 == infos[idx1]
             song_info2 == infos[idx2]
             absorbed ==
                 [song_info1 EXCEPT
                     !.ids = ids1 \cup song_info2.ids,
                     !.urls = IF song_info1.urls # <<>> /\ song_info2.urls # <<>>
                              THEN dict_merge(song_info1.urls, song_info2.urls)
                              ELSE song_info1.urls,
                     !.urls_in_text =
                         song_info1.urls_in_text \cup song_info2.urls_in_text]
         IN  merge_inner([infos EXCEPT ![idx1] = absorbed],
                         merged \cup {idx2}, idx1, ids1, idx2 + 1)
    ELSE merge_inner(infos, merged, idx1, ids1, idx2 + 1)

RECURSIVE merge_outer(_, _, _)
merge_outer(infos, merged, idx1) ==
    IF idx1 > Len(infos) THEN [infos |-> infos, merged |-> merged]
    ELSE IF ~Truthy(infos[idx1]) \/ idx1 \in merged
    THEN merge_outer(infos, merged, idx1 + 1)
    ELSE LET pass == merge_inner(infos, merged, idx1, infos[idx1].ids, 1)
         IN  merge_outer(pass.infos, pass.merged, idx1 + 1)

\* merged_song_info_indexes when the loops are over.
merged_song_info_indexes(infos) == merge_outer(infos, {}, 1).merged

\* The ascending indexes of `among` as a sequence.
RECURSIVE Ascending(_)
Ascending(among) ==
    IF among = {} THEN <<>>
    ELSE LET least == CHOOSE k \in among : \A j \in among : k <= j
         IN  <<least>> \o Ascending(among \ {least})

\* A variant of _merge_same_songs that returns the found songs only.
merge_found_songs(infos) ==
    LET done == merge_outer(infos, {}, 1)
        kept == Ascending({k \in (1..Len(infos)) \ done.merged :
                              Truthy(infos[k])})
    IN  [k \in 1..Len(kept) |-> done.infos[kept[k]]]

\* A variant of _merge_same_songs that returns the entries that absorbed
\* another one before the entries that did not.
merged_songs_first(infos) ==
    LET done == merge_outer(infos, {}, 1)
        kept == (1..Len(infos)) \ done.merged
        grown == {k \in kept : done.infos[k] # infos[k]}
        order == Ascending(grown) \o Ascending(kept \ grown)
    IN  [k \in 1..Len(order) |-> done.infos[order[k]]]

_merge_same_songs(infos) ==
    LET done == merge_outer(infos, {}, 1)
        kept == Ascending((1..Len(infos)) \ done.merged)
    IN  [k \in 1..Len(kept) |-> done.infos[kept[k]]]

(***************************************************************************)
(* _find_songs, after extraction: what asyncio.gather(...,                 *)
(* return_exceptions=True) returned is turned into SongInfos, and the      *)
(* function returns the merged tuple or raises.                            *)
(***************************************************************************)
Found(exception, infos) == [raised |-> exception, song_infos |-> infos]

\* A variant of all_not_found that takes every APIError for a 404.
all_api_errors(exceptions, k) ==
    IF \E j \in k..Len(exceptions) : exceptions[j].kind # "APIError"
    THEN "AttributeError" ELSE "True"

\* all(exc.status_code == HTTPStatus.NOT_FOUND for exc in exceptions), lazily
\* and in order: "True", "False", or the AttributeError of an exception
\* that has no status_code.
RECURSIVE all_not_found(_, _)
all_not_found(exceptions, k) ==
    IF k > Len(exceptions) THEN "True"
    ELSE IF exceptions[k].kind # "APIError" THEN "AttributeError"
    ELSE IF exceptions[k].status_code # HTTP_NOT_FOUND THEN "False"
    ELSE all_not_found(exceptions, k + 1)

\* A variant of any that tests the list instead of its entries.
any_entry(infos) == infos # <<>>

\* any(song_infos)
any(infos) == \E k \in 1..Len(infos) : Truthy(infos[k])

\* A variant of gathered_song_infos that keeps the found songs only.
gathered_found(urls, results) ==
    LET found == SelectSeq(results, LAMBDA item : item.kind = "SongInfo")
    IN  [k \in 1..Len(found) |-> found[k].song]

\* The song_infos list built from the gathered results.
gathered_song_infos(urls, results) ==
    [k \in 1..Len(urls) |->
        IF results[k].kind = "SongInfo" THEN results[k].song
        ELSE EmptySongInfo(urls[k].url)]

gathered_exceptions(results) ==
    SelectSeq(results, LAMBDA item : item.kind # "SongInfo")

\* A variant of _find_songs without the early return for an empty list of links.
_find_songs_without_return(urls, results) ==
    LET infos == gathered_song_infos(urls, results)
        verdict == IF any(infos) THEN "False"
                   ELSE all_not_found(gathered_exceptions(results), 1)
    IN  CASE verdict = "True" -> Found("SongNotFoundError", <<>>)
          [] verdict = "AttributeError" -> Found("AttributeError", <<>>)
          [] OTHER -> Found("none", _merge_same_songs(infos))

_find_songs(urls, results) ==
    IF urls = <<>> THEN Found("none", <<>>)
    ELSE LET infos == gathered_song_infos(urls, results)
             verdict == IF any(infos) THEN "False"
                        ELSE all_not_found(gathered_exceptions(results), 1)
         IN  CASE verdict = "True" -> Found("SongNotFoundError", <<>>)
               [] verdict = "AttributeError" -> Found("AttributeError", <<>>)
               [] OTHER -> Found("none", _merge_same_songs(infos))

(***************************************************************************)
(* _replace_urls_with_footnotes.  str.replace on a text of tokens: a URL   *)
(* of the text is replaced where it is the URL looked for, and also where  *)
(* it begins with it (".../track/1" stands in ".../track/12" and in            *)
(* ".../track/1?utm_source=x"); what follows the match stays in the text,    *)
(* after the replacement.  '' is <<>>.                                     *)
(***************************************************************************)
\* message.replace(url, by): `by` is the token put in place of the match,
\* its field u holding the characters of the token that follow the match.
str_replace(message, url, by) ==
    [k \in 1..Len(message) |->
        LET tok == message[k]
            begins == /\ tok.u.p = url.p
                      /\ ~url.utm
                      /\ Len(url.id) <= Len(tok.u.id)
                      /\ SubSeq(tok.u.id, 1, Len(url.id)) = url.id
            rest == [p |-> "",
                     id |-> SubSeq(tok.u.id, Len(url.id) + 1, Len(tok.u.id)),
                     utm |-> tok.u.utm]
        IN  IF tok.t # "url" THEN tok
            ELSE IF tok.u = url THEN by
            ELSE IF begins THEN [by EXCEPT !.u = rest]
            ELSE tok]

\* message.replace(url, by) for every url of one song_info.  The order in
\* which a set is walked only matters when one of its URLs begins with
\* another, which is the case of no entry of the specifications below.
RECURSIVE replace_urls(_, _, _)
replace_urls(message, urls, by) ==
    IF urls = {} THEN message
    ELSE LET url == CHOOSE u \in urls : TRUE
         IN  replace_urls(str_replace(message, url, by), urls \ {url}, by)

\* The two loops over song_infos: with footnotes [1], [2], ..., or with ''
\* (a token with t = "") in place of the URLs.
RECURSIVE replace_from(_, _, _, _)
replace_from(message, infos, index, footnotes) ==
    IF index > Len(infos) THEN message
    ELSE replace_from(
             replace_urls(message, infos[index].urls_in_text,
                          IF footnotes THEN Footnote(index)
                          ELSE [t |-> "", u |-> NoUrl, n |-> 0]),
             infos, index + 1, footnotes)

\* _test_message.strip(): the tokens left once every source URL is replaced
\* by ''.
without_urls(message, infos) ==
    SelectSeq(replace_from(message, infos, 1, FALSE),
              LAMBDA tok : ~(tok.t = "" /\ tok.u = NoUrl))

_replace_urls_with_footnotes(message, infos) ==
    IF without_urls(message, infos) = <<>> THEN <<>>
    ELSE replace_from(message, infos, 1, TRUE)

(***************************************************************************)
(* _format_urls and _compose_reply.  The reply text is the sequence of its *)
(* lines; an anchor <a href="url">name</a> is the pair (name, url).        *)
(***************************************************************************)
Line(k, text, index, song_info, url) ==
    [k |-> k, text |-> text, index |-> index,
     artist |-> song_info.artist, title |-> song_info.title,
     links |-> song_info.urls, url |-> url]

NoSong == EmptySongInfo(NoUrl)

\* '<b>{mention} wrote:</b> {message_text}'
QuoteLine(text) == Line("quote", text, 0, NoSong, NoUrl)
\* message_text alone
TextLine(text) == Line("text", text, 0, NoSong, NoUrl)
\* the empty line that the '\n' ending message_text leaves after it
BlankLine == Line("blank", <<>>, 0, NoSong, NoUrl)
\* '{index}. {url}'
UrlLine(index, url) == Line("url", <<>>, index, NoSong, url)
\* '{index}. {artist} - {title}', or '{artist} - {title}' with index 0
SongLine(index, song_info) ==
    Line("song", <<>>, index, [song_info EXCEPT !.urls = <<>>], NoUrl)
\* the anchors joined by ' | '
LinksLine(song_info) ==
    Line("links", <<>>, 0, [NoSong EXCEPT !.urls = song_info.urls], NoUrl)

\* (formatted_urls, formatted_platforms)
_format_urls(song_info) ==
    [urls |-> song_info.urls,
     names |-> [k \in 1..Len(song_info.urls) |-> song_info.urls[k].name]]

\* A line str.strip() removes at either end of the reply.
IsWhitespace(line) ==
    \/ line.k = "blank"
    \/ line.k = "text" /\ line.text = <<>>
    \/ line.k = "links" /\ line.links = <<>>

RECURSIVE lstrip(_)
lstrip(lines) ==
    IF lines # <<>> /\ IsWhitespace(Head(lines)) THEN lstrip(Tail(lines))
    ELSE lines

RECURSIVE rstrip(_)
rstrip(lines) ==
    IF lines # <<>> /\ IsWhitespace(lines[Len(lines)])
    THEN rstrip(SubSeq(lines, 1, Len(lines) - 1))
    ELSE lines

strip(lines) == rstrip(lstrip(lines))

\* The lines of one song_info in the reply.
RECURSIVE song_lines(_, _, _)
song_lines(infos, index, append_index) ==
    IF index > Len(infos) THEN <<>>
    ELSE (IF ~Truthy(infos[index])
          THEN << UrlLine(index, CHOOSE u \in infos[index].urls_in_text : TRUE) >>
          ELSE << SongLine(IF append_index THEN index ELSE 0, infos[index]),
                  LinksLine(infos[index]) >>)
         \o song_lines(infos, index + 1, append_index)

\* A variant of _compose_reply that numbers the songs whatever append_index.
compose_numbered(infos, message_text, chat_type, append_index) ==
    LET header == IF chat_type # "private"
                  THEN <<QuoteLine(message_text)>>
                  ELSE <<TextLine(message_text)>>
        newline == IF message_text # <<>> THEN <<BlankLine>> ELSE <<>>
    IN  strip(header \o newline \o song_lines(infos, 1, TRUE))

\* message_text is the substituted text followed by '\n', or ''.
_compose_reply(infos, message_text, chat_type, append_index) ==
    LET header == IF chat_type # "private"
                  THEN <<QuoteLine(message_text)>>
                  ELSE <<TextLine(message_text)>>
        newline == IF message_text # <<>> THEN <<BlankLine>> ELSE <<>>
    IN  strip(header \o newline \o song_lines(infos, 1, append_index))

(***************************************************************************)
(* The calls a handler makes on the Telegram side.                         *)
(***************************************************************************)
Call(op, text, lines, results) ==
    [op |-> op, text |-> text, lines |-> lines, results |-> results]

\* message.reply(text="Sorry, ...", parse_mode='HTML')
NotFoundReply == Call("reply", NOT_FOUND_TEXT, <<>>, <<>>)
\* message.reply(text=reply_text, parse_mode='HTML', reply=False)
SongReply(lines) == Call("reply", "", lines, <<>>)
\* message.delete(); text tells whether Telegram refused it
Delete(outcome) == Call("delete", outcome, <<>>, <<>>)
\* bot.answer_inline_query(inline_query.id, results=...)
AnswerInlineQuery(results) == Call("answer_inline_query", "", <<>>, results)

(***************************************************************************)
(* handle_message, from the return of _find_songs to message.reply.        *)
(***************************************************************************)
\* A variant of nothing_to_show that only looks for a found song.
nothing_found(infos) == ~any(infos)

\* `not any(song_infos) or all(len(song_info.urls) == 1 for song_info in
\* song_infos if song_info.urls)`
nothing_to_show(infos) ==
    \/ ~any(infos)
    \/ \A k \in 1..Len(infos) :
           infos[k].urls # <<>> => Len(infos[k].urls) = 1

\* The reply of handle_message for what _find_songs returned or raised:
\* the calls made, and the exception that leaves the handler.
handle_message_reply(message, found) ==
    CASE found.raised = "SongNotFoundError" ->
           [sent |-> <<NotFoundReply>>, raised |-> "none"]
      [] found.raised # "none" ->
           [sent |-> <<>>, raised |-> found.raised]
      [] nothing_to_show(found.song_infos) ->
           [sent |-> <<>>, raised |-> "none"]
      [] OTHER ->
           LET prepared == _replace_urls_with_footnotes(message.text,
                                                        found.song_infos)
               append_index == Len(found.song_infos) > 1 \/ prepared # <<>>
           IN  [sent |-> << SongReply(_compose_reply(found.song_infos, prepared,
                                          message.chat_type, append_index)) >>,
                raised |-> "none"]

(***************************************************************************)
(* handle_inline_query, from the return of _find_songs to                  *)
(* answer_inline_query.                                                    *)
(***************************************************************************)
Article(title, song_info) ==
    [title |-> title, artist |-> song_info.artist, song |-> song_info.title,
     links |-> _format_urls(song_info).urls,
     thumb_url |-> song_info.thumbnail_url,
     description |-> _format_urls(song_info).names]

NotFoundArticle == Article("Not found", NoSong)

articles(infos) ==
    LET found == SelectSeq(infos, Truthy)
    IN  [k \in 1..Len(found) |-> Article("", found[k])]

handle_inline_query_answer(found) ==
    CASE found.raised = "SongNotFoundError" ->
           [sent |-> <<AnswerInlineQuery(<<NotFoundArticle>>)>>, raised |-> "none"]
      [] found.raised # "none" ->
           [sent |-> <<>>, raised |-> found.raised]
      [] OTHER ->
           [sent |-> <<AnswerInlineQuery(articles(found.song_infos))>>,
            raised |-> "none"]

(***************************************************************************)
(* find_song_by_url: one coroutine per link, a step per await.             *)
(*                                                                         *)
(*   "new"/"loop"  at `while _retries < self.API_MAX_RETRIES`              *)
(*   "gate"        cache.get returned nothing; at `_api_ready.is_set()`    *)
(*   "waiting"     in `await self._api_ready.wait()`                       *)
(*   "woken"       wait() has returned, the request is not issued yet      *)
(*   "in_flight"   in `session.get(...)`, the request is issued            *)
(*   "backoff"     in `asyncio.sleep` after a 429, the gate cleared        *)
(*   "conn_sleep"  in `asyncio.sleep` after a ClientConnectionError        *)
(*   "done"        returned or raised: result holds what gather receives   *)
(*   "idle"        SpecResolve: a slot no coroutine runs in                *)
(***************************************************************************)
Task(pc, song_url, retries, result) ==
    [pc |-> pc, song_url |-> song_url, retries |-> retries, result |-> result]

NewTask(song_url) == Task("new", song_url, 0, NoResult)

IdleTask == Task("idle", SongUrl(PlatformOf("deezer"), NoUrl), 0, NoResult)

\* What a step of coroutine `slot` got from session.get: a response with
\* its status and whether its body passes ApiResponseSchema, or (status 0)
\* a ClientConnectionError. Slot 0: the step handled no response.
Answer(slot, status, valid) ==
    [slot |-> slot, status |-> status, valid |-> valid]

NoAnswer == Answer(0, 0, FALSE)

\* The coroutine is over: its locals are gone, gather holds its result.
Finished(task, result) == Task("done", task.song_url, 0, result)

\* cache.get(key): the entry, or nothing.
Cached(key) == key \in DOMAIN cache /\ Truthy(cache[key])

\* cache.set(key, value)
cache_set(store, key, value) ==
    [k \in DOMAIN store \cup {key} |-> IF k = key THEN value ELSE store[k]]

\* A variant of cache_key that takes the URL as it stands in the text.
raw_key(song_url) == song_url.url

\* The key find_song_by_url reads and writes the cache under.
cache_key(song_url) == normalize_url(song_url.url)

\* A variant of from_cache that hands out the entry as it was stored.
cached_as_is(cached, song_url) == cached

\* The SongInfo built from a cache entry.
from_cache(cached, song_url) ==
    SongInfo(cached.ids, cached.title, cached.artist, cached.urls,
             cached.thumbnail_url, {song_url.url})

\* A variant of retries_left that allows one attempt more.
one_more_retry(retries) == retries <= API_MAX_RETRIES

\* `while _retries < self.API_MAX_RETRIES`
retries_left(retries) == retries < API_MAX_RETRIES

\* Top of the while loop, through `await self.cache.get(normalized_url)`.
LoopTop(i) ==
    /\ tasks[i].pc \in {"new", "loop"}
    /\ LET task == tasks[i]
           key == cache_key(task.song_url)
       IN  tasks' = [tasks EXCEPT ![i] =
               IF ~retries_left(task.retries)
               THEN Finished(task, Raised("APIError", 0))
               ELSE IF Cached(key)
               THEN Finished(task, Returned(from_cache(cache[key], task.song_url)))
               ELSE [task EXCEPT !.pc = "gate"]]
    /\ UNCHANGED <<cache, api_ready>>

\* `if not self._api_ready.is_set(): await self._api_ready.wait()`, and the
\* request issued at once when the event is set.
Gate(i) ==
    /\ tasks[i].pc = "gate"
    /\ tasks' = [tasks EXCEPT ![i].pc =
                     IF api_ready THEN "in_flight" ELSE "waiting"]
    /\ UNCHANGED <<cache, api_ready>>

\* wait() returned: the request is issued, the event is not read again.
Woken(i) ==
    /\ tasks[i].pc = "woken"
    /\ tasks' = [tasks EXCEPT ![i].pc = "in_flight"]
    /\ UNCHANGED <<cache, api_ready>>

\* The result of a 200 response: APIError(None) for an invalid body, else
\* what process_api_response gives.
on_ok(body, song_url) ==
    IF ~SchemaValid(body) THEN Raised("APIError", 0)
    ELSE process_api_response(ApiResponseSchema(body), song_url.url)

\* A variant of too_many_requests that counts the 429 as a failed attempt.
too_many_requests_counted(task) ==
    [task EXCEPT !.pc = "backoff", !.retries = @ + 1]

\* The coroutine after a 429: it sleeps, `_retries` untouched.
too_many_requests(task) == [task EXCEPT !.pc = "backoff"]

\* A variant of cached_result that stores whatever the processing gave.
cached_whatever(store, song_url, result) ==
    cache_set(store, cache_key(song_url), result.song)

\* The store after a 200 response: `await self.cache.set(normalized_url,
\* song_info)` is reached only when validation and processing raised nothing.
cached_result(store, song_url, result) ==
    IF result.kind = "SongInfo"
    THEN cache_set(store, cache_key(song_url), result.song)
    ELSE store

\* The response arrives.
Respond(i, response) ==
    /\ tasks[i].pc = "in_flight"
    /\ LET task == tasks[i]
           result == on_ok(response.body, task.song_url)
       IN  CASE response.status = HTTP_TOO_MANY_REQUESTS ->
                  /\ api_ready' = FALSE
                  /\ tasks' = [tasks EXCEPT ![i] = too_many_requests(task)]
                  /\ UNCHANGED cache
             [] response.status \notin {HTTP_OK, HTTP_TOO_MANY_REQUESTS} ->
                  /\ tasks' = [tasks EXCEPT ![i] =
                         Finished(task, Raised("APIError", response.status))]
                  /\ UNCHANGED <<cache, api_ready>>
             [] OTHER ->
                  /\ tasks' = [tasks EXCEPT ![i] = Finished(task, result)]
                  /\ cache' = cached_result(cache, task.song_url, result)
                  /\ UNCHANGED api_ready

\* session.get raises ClientConnectionError.
ConnectionError(i) ==
    /\ tasks[i].pc = "in_flight"
    /\ tasks' = [tasks EXCEPT ![i].pc = "conn_sleep",
                              ![i].retries = tasks[i].retries + 1]
    /\ UNCHANGED <<cache, api_ready>>

\* A variant of BackoffEnd that goes on without setting the event.
BackoffWithoutSet(i) ==
    /\ tasks[i].pc = "backoff"
    /\ tasks' = [tasks EXCEPT ![i].pc = "loop"]
    /\ UNCHANGED <<cache, api_ready>>

\* The sleep after a 429 is over: `self._api_ready.set()`, which wakes every
\* waiter, and `continue`.
BackoffEnd(i) ==
    /\ tasks[i].pc = "backoff"
    /\ api_ready' = TRUE
    /\ tasks' = [j \in DOMAIN tasks |->
                    IF j = i THEN [tasks[j] EXCEPT !.pc = "loop"]
                    ELSE IF tasks[j].pc = "waiting"
                    THEN [tasks[j] EXCEPT !.pc = "woken"]
                    ELSE tasks[j]]
    /\ UNCHANGED cache

\* The sleep after a connection error is over.
SleepEnd(i) ==
    /\ tasks[i].pc = "conn_sleep"
    /\ tasks' = [tasks EXCEPT ![i].pc = "loop"]
    /\ UNCHANGED <<cache, api_ready>>

\* The cache drops an entry whose ttl is over.
Expire(key) ==
    /\ key \in DOMAIN cache
    /\ cache' = [k \in DOMAIN cache \ {key} |-> cache[k]]

\* This step issued a request.
Issued(i) == tasks[i].pc # "in_flight" /\ tasks'[i].pc = "in_flight"

\* This step awaited cache.get.
LookedUp(i) ==
    tasks[i].pc \in {"new", "loop"} /\ tasks[i].retries < API_MAX_RETRIES

(***************************************************************************)
(* group_songlink_bot/config.py: Config.load_config.  The name of an       *)
(* environment variable is a prefix and the rest, attribute values are     *)
(* strings ("None", "False", "True" for the Python constants), and an      *)
(* object's attributes are those of its class with the ones set on it.     *)
(***************************************************************************)
env_prefix == "GROUP_SONGLINK_BOT_"

EnvVar(prefix, name) == [prefix |-> prefix, name |-> name]

\* The attributes a class defines.
class_attrs(cls) ==
    IF cls = "TestConfig"
    THEN [DEBUG |-> "True", BOT_API_TOKEN |-> "invalid",
          SONGLINK_API_URL |-> "https://api.song.link/v1-alpha.1/links",
          SONGLINK_API_KEY |-> "", SENTRY_DSN |-> "None"]
    ELSE [DEBUG |-> "False", BOT_API_TOKEN |-> "",
          SONGLINK_API_URL |-> "https://api.song.link/v1-alpha.1/links",
          SONGLINK_API_KEY |-> "", SENTRY_DSN |-> ""]

\* dotenv.load_dotenv(): the variables of the .env file enter os.environ,
\* those already in the environment are kept.
load_dotenv(os_environ, file) ==
    [name \in DOMAIN os_environ \cup DOMAIN file |->
        IF name \in DOMAIN os_environ THEN os_environ[name] ELSE file[name]]

\* A variant of hasattr that knows no attribute.
no_attr(attrs, var_name) == FALSE

\* hasattr(config, var_name)
hasattr(attrs, var_name) == var_name \in DOMAIN attrs

\* The loop over os.environ.items(): a variable named with the prefix is set
\* on the object when the object has no attribute of the name left after
\* the prefix.
set_from_environ(attrs, os_environ) ==
    LET named == {e \in DOMAIN os_environ :
                     /\ e.prefix = env_prefix
                     /\ ~hasattr(attrs, e.name)}
        names == DOMAIN attrs \cup {e.name : e \in named}
    IN  [var_name \in names |->
            IF \E e \in named : e.name = var_name
            THEN os_environ[EnvVar(env_prefix, var_name)]
            ELSE attrs[var_name]]

\* The object a class has not been loaded into.
NotLoaded == [cls |-> "", attrs |-> <<>>, sentry |-> FALSE, logging |-> FALSE]

\* cls.load_config(): the object, sentry_sdk.init when SENTRY_DSN is truthy,
\* and init_logging.
load_config(cls, os_environ) ==
    LET attrs == set_from_environ(class_attrs(cls), os_environ)
    IN  [cls |-> cls, attrs |-> attrs,
         sentry |-> attrs.SENTRY_DSN \notin {"", "None"},
         logging |-> TRUE]

(***************************************************************************)
(* OdesliBot.start / _start / stop: the connection to Telegram.            *)
(*   "start"    _start is scheduled or awaits skip_updates                 *)
(*   "sleep"    in `asyncio.sleep(self.TG_RETRY_TIME)`                     *)
(*   "polling"  start_polling is scheduled: the bot handles updates        *)
(*   "stopped"  stop() and self._loop.stop() were called                   *)
(*   "failed"   _start ended with an exception it does not catch           *)
(* TG_MAX_RETRIES is Unlimited for None.  `slept` is the time spent in the *)
(* sleep, `attempts` the history of the calls of _start.                   *)
(***************************************************************************)
Unlimited == -1

Startup(pc, TG_MAX_RETRIES, TG_RETRY_TIME, tg_retries, slept, attempts, exc) ==
    [pc |-> pc, TG_MAX_RETRIES |-> TG_MAX_RETRIES,
     TG_RETRY_TIME |-> TG_RETRY_TIME, tg_retries |-> tg_retries,
     slept |-> slept, attempts |-> attempts, exc |-> exc]

\* `except (ConnectionResetError, NetworkError, ClientConnectionError)`
ConnectionErrors ==
    {"ConnectionResetError", "NetworkError", "ClientConnectionError"}

\* What skip_updates ends with: nothing, a connection error, or an error
\* _start does not catch.
ConnectOutcomes == {"ok", "Unauthorized"} \cup ConnectionErrors

\* A variant of may_retry that allows one retry more.
may_retry_once_more(s) ==
    s.TG_MAX_RETRIES = Unlimited \/ s.tg_retries <= s.TG_MAX_RETRIES

\* `self.TG_MAX_RETRIES is None or self._tg_retries < self.TG_MAX_RETRIES`
may_retry(s) ==
    s.TG_MAX_RETRIES = Unlimited \/ s.tg_retries < s.TG_MAX_RETRIES

\* _start up to its first sleep or its end: init, skip_updates,
\* start_polling, and the except branch; stop() clears the cache.
Connect(outcome) ==
    /\ startup.pc = "start"
    /\ LET s == [startup EXCEPT !.attempts = @ + 1, !.exc = outcome]
       IN  IF outcome = "ok"
           THEN startup' = [s EXCEPT !.pc = "polling"] /\ UNCHANGED cache
           ELSE IF outcome \notin ConnectionErrors
           THEN startup' = [s EXCEPT !.pc = "failed"] /\ UNCHANGED cache
           ELSE IF may_retry(s)
           THEN /\ startup' = [s EXCEPT !.tg_retries = @ + 1,
                                        !.pc = "sleep", !.slept = 0]
                /\ UNCHANGED cache
           ELSE /\ startup' = [s EXCEPT !.pc = "stopped"]
                /\ cache' = <<>>

\* Time passes in the sleep.
Tick ==
    /\ startup.pc = "sleep"
    /\ startup.slept < startup.TG_RETRY_TIME
    /\ startup' = [startup EXCEPT !.slept = @ + 1]
    /\ UNCHANGED cache

\* The sleep is over: `asyncio.create_task(self._start())`.
Retry ==
    /\ startup.pc = "sleep"
    /\ startup.slept = startup.TG_RETRY_TIME
    /\ startup' = [startup EXCEPT !.pc = "start"]
    /\ UNCHANGED cache

\* The bot of the specifications of the handlers: configured for the tests,
\* connected at its first attempt.
Started ==
    /\ dotenv = <<>>
    /\ environ = <<>>
    /\ config = [cls |-> "TestConfig", attrs |-> class_attrs("TestConfig"),
                 sentry |-> FALSE, logging |-> TRUE]
    /\ startup = Startup("polling", Unlimited, 1, 0, 0, 1, "ok")

(***************************************************************************)
(* The dispatcher hands one update at a time to handle_message or          *)
(* handle_inline_query.  Chat types are those handle_message tells apart   *)
(* (a channel post is handled as a group message without the YouTube       *)
(* exclusion and is left out).                                             *)
(***************************************************************************)
Message(kind, chat_type, text) ==
    [kind |-> kind, chat_type |-> chat_type, text |-> text]

NoMessage == Message("none", "", <<>>)

ChatTypes == {"private", "group", "supergroup"}

Messages ==
    {Message("message", chat_type, text) : chat_type \in ChatTypes, text \in Texts}
    \cup {Message("inline_query", "", text) : text \in Texts}

\* A variant of group_message that knows the plain group only.
group_only(message) == message.chat_type = "group"

\* group_message in handle_message; False in handle_inline_query.
group_message(message) == message.chat_type \in {"group", "supergroup"}

\* A variant of returns_early that only returns early on an empty text.
returns_if_empty(message) == message.text = <<>>

\* The handler returns before _find_songs is called.
returns_early(message) ==
    IF message.kind = "message" THEN HasSkipMark(message.text)
    ELSE message.text = <<>>

\* What the handler sends when it returns before _find_songs.
early_calls(message) ==
    IF message.kind = "message" THEN <<>> ELSE <<AnswerInlineQuery(<<>>)>>

\* The handler from the return of gather on: what _find_songs gives, the
\* calls made and the exception that leaves the handler.
handler_outcome(message, urls, results) ==
    LET found == _find_songs(urls, results)
        reply == IF message.kind = "message"
                 THEN handle_message_reply(message, found)
                 ELSE handle_inline_query_answer(found)
    IN  [song_infos |-> found.song_infos, sent |-> reply.sent,
         raised |-> reply.raised]

\* A variant of deletes_message that deletes after any reply.
deletes_after_reply(message, sent) ==
    /\ message.kind = "message"
    /\ message.chat_type # "private"
    /\ sent # <<>>

\* `await message.delete()` follows the reply.
deletes_message(message, sent) ==
    /\ message.kind = "message"
    /\ message.chat_type # "private"
    /\ sent # <<>>
    /\ sent[1].text # NOT_FOUND_TEXT

\* The handler is entered: skip check, extraction, and either the whole of
\* the handler when there is nothing to resolve or the coroutines created and
\* handed to gather.
Receive(message) ==
    /\ phase = "idle"
    /\ msg' = message
    /\ LET urls == IF returns_early(message) THEN <<>>
                   ELSE extract_song_urls(message.text, group_message(message))
           outcome == handler_outcome(message, urls, <<>>)
       IN  /\ song_urls' = urls
           /\ tasks' = [k \in 1..Len(urls) |-> NewTask(urls[k])]
           /\ IF returns_early(message)
              THEN /\ outbox' = early_calls(message)
                   /\ song_infos' = <<>>
                   /\ raised' = "none"
                   /\ phase' = "returned"
              ELSE IF urls = <<>>
              THEN /\ outbox' = outcome.sent
                   /\ song_infos' = outcome.song_infos
                   /\ raised' = outcome.raised
                   /\ phase' = "returned"
              ELSE /\ outbox' = <<>>
                   /\ song_infos' = <<>>
                   /\ raised' = "none"
                   /\ phase' = "gather"
    /\ UNCHANGED <<dotenv, environ, config, startup, cache, api_ready,
                   looked_up, requested, calls, earlier, resolved, throttle,
                   answered>>

\* The coroutines of one message are run to completion one at a time, in any
\* order: what each returns depends only on the cache and on the service's
\* answers, so every tuple of results gather can return is reached this way.
Serial(i) ==
    /\ phase = "gather"
    /\ i \in DOMAIN tasks
    /\ \A j \in DOMAIN tasks \ {i} : tasks[j].pc \in {"new", "done"}

\* The ghost record of a step of coroutine i of the current message.
Observed(i) ==
    /\ looked_up' = (looked_up \/ LookedUp(i))
    /\ requested' = (requested \/ Issued(i))
    /\ UNCHANGED <<dotenv, environ, config, startup, msg, phase, song_urls,
                   song_infos, raised, outbox, calls, earlier, resolved,
                   throttle, answered>>

\* gather has every result: the rest of _find_songs and of the handler, up to
\* the reply.
Gathered ==
    /\ phase = "gather"
    /\ \A i \in DOMAIN tasks : tasks[i].pc = "done"
    /\ LET results == [k \in DOMAIN tasks |-> tasks[k].result]
           outcome == handler_outcome(msg, song_urls, results)
       IN  /\ song_infos' = outcome.song_infos
           /\ raised' = outcome.raised
           /\ outbox' = outcome.sent
           /\ phase' = IF deletes_message(msg, outcome.sent)
                       THEN "delete" ELSE "returned"
    /\ UNCHANGED <<dotenv, environ, config, startup, msg, song_urls, tasks,
                   cache, api_ready, looked_up, requested, calls, earlier,
                   resolved, throttle, answered>>

\* A variant of DeleteMessage that lets MessageCantBeDeleted leave the handler.
DeleteMessageOrRaise(outcome) ==
    /\ phase = "delete"
    /\ outbox' = Append(outbox, Delete(outcome))
    /\ raised' = IF outcome = "ok" THEN raised ELSE outcome
    /\ phase' = "returned"
    /\ UNCHANGED <<dotenv, environ, config, startup, msg, song_urls, tasks,
                   cache, api_ready, song_infos, looked_up, requested, calls,
                   earlier, resolved, throttle, answered>>

\* `await message.delete()`; MessageCantBeDeleted is logged and swallowed.
DeleteMessage(outcome) ==
    /\ phase = "delete"
    /\ outbox' = Append(outbox, Delete(outcome))
    /\ phase' = "returned"
    /\ UNCHANGED <<dotenv, environ, config, startup, msg, song_urls, tasks,
                   cache, api_ready, song_infos, raised, looked_up, requested,
                   calls, earlier, resolved, throttle, answered>>

DeleteOutcomes == {"ok", "MessageCantBeDeleted"}

\* The handler has returned; the dispatcher is ready for the next update.
\* The record of the update just handled is dropped.
Return ==
    /\ phase = "returned"
    /\ msg' = NoMessage
    /\ phase' = "idle"
    /\ song_urls' = <<>>
    /\ tasks' = <<>>
    /\ song_infos' = <<>>
    /\ raised' = "none"
    /\ outbox' = <<>>
    /\ looked_up' = FALSE
    /\ requested' = FALSE
    /\ UNCHANGED <<dotenv, environ, config, startup, cache, api_ready, calls,
                   earlier, resolved, throttle, answered>>

\* A cache entry expires between two updates.
ExpireIdle(key) ==
    /\ phase = "idle"
    /\ Expire(key)
    /\ UNCHANGED <<dotenv, environ, config, startup, msg, phase, song_urls,
                   tasks, api_ready, song_infos, raised, outbox, looked_up,
                   requested, calls, earlier, resolved, throttle, answered>>

CacheKeys == {d1, s1, y1, d2}

Init ==
    /\ msg = NoMessage
    /\ phase = "idle"
    /\ song_urls = <<>>
    /\ tasks = <<>>
    /\ cache = <<>>
    /\ api_ready = TRUE
    /\ song_infos = <<>>
    /\ raised = "none"
    /\ outbox = <<>>
    /\ looked_up = FALSE
    /\ requested = FALSE
    /\ calls = <<>>
    /\ earlier = <<>>
    /\ resolved = <<>>
    /\ throttle = <<>>
    /\ answered = NoAnswer
    /\ Started

Next ==
    \/ \E message \in Messages : Receive(message)
    \/ \E i \in DOMAIN tasks : Serial(i) /\ LoopTop(i) /\ Observed(i)
    \/ \E i \in DOMAIN tasks : Serial(i) /\ Gate(i) /\ Observed(i)
    \/ \E i \in DOMAIN tasks :
          \E response \in Responses(cache_key(tasks[i].song_url)) :
              Serial(i) /\ Respond(i, response) /\ Observed(i)
    \/ \E i \in DOMAIN tasks : Serial(i) /\ ConnectionError(i) /\ Observed(i)
    \/ \E i \in DOMAIN tasks : Serial(i) /\ BackoffEnd(i) /\ Observed(i)
    \/ \E i \in DOMAIN tasks : Serial(i) /\ SleepEnd(i) /\ Observed(i)
    \/ Gathered
    \/ \E outcome \in DeleteOutcomes : DeleteMessage(outcome)
    \/ Return
    \/ \E key \in CacheKeys : ExpireIdle(key)

Spec == Init /\ [][Next]_vars

(***************************************************************************)
(* SpecExtract: extract_song_urls applied to a text.                       *)
(***************************************************************************)
\* msg holds the arguments (the chat type stands for skip_youtube).
InitExtract ==
    /\ msg \in {Message("text", chat_type, text) :
                    chat_type \in {"private", "group"}, text \in ExtractTexts}
    /\ phase = "idle"
    /\ song_urls = <<>>
    /\ tasks = <<>>
    /\ cache = <<>>
    /\ api_ready = TRUE
    /\ song_infos = <<>>
    /\ raised = "none"
    /\ outbox = <<>>
    /\ looked_up = FALSE
    /\ requested = FALSE
    /\ calls = <<>>
    /\ earlier = <<>>
    /\ resolved = <<>>
    /\ throttle = <<>>
    /\ answered = NoAnswer
    /\ Started

\* song_urls holds the returned list.
Extract ==
    /\ phase = "idle"
    /\ song_urls' = extract_song_urls(msg.text, msg.chat_type = "group")
    /\ phase' = "returned"
    /\ UNCHANGED <<dotenv, environ, config, startup, msg, tasks, cache,
                   api_ready, song_infos, raised, outbox, looked_up,
                   requested, calls, earlier, resolved, throttle, answered>>

NextExtract == Extract

SpecExtract == InitExtract /\ [][NextExtract]_vars

(***************************************************************************)
(* SpecMerge: _merge_same_songs applied to the gathered results of up to   *)
(* MaxInfos links, and applied again to what it returned.                  *)
(***************************************************************************)
\* The identifier sets and the platform URLs of the gathered SongInfos: the
\* sets overlap in every way three identifiers allow two by two, the URLs
\* are none, one platform, or two platforms with another URL for the first.
MergeIds == {{"A"}, {"B"}, {"A", "B"}, {"A", "C"}, {"B", "C"}}

MergeUrls ==
    { <<>>,
      << [name |-> "Deezer", url |-> "https://www.test.com/d"] >>,
      << [name |-> "Deezer", url |-> "https://www.test.com/d2"],
         [name |-> "Spotify", url |-> "https://www.test.com/s"] >> }

\* The link at position k of the message: each position has its own.
link(k) == Url("deezer", <<k>>, FALSE)

\* What a resolution came to: identifiers and platform URLs, or a failure
\* (no identifiers).
MergeOutcomes ==
    {[ids |-> ids, urls |-> urls] : ids \in MergeIds, urls \in MergeUrls}
    \cup {[ids |-> {}, urls |-> <<>>]}

\* What gather holds for the link at position k: a SongInfo, or the APIError
\* of a failure.
MergeResult(outcome, k) ==
    IF outcome.ids = {} THEN Raised("APIError", HTTP_INTERNAL_SERVER_ERROR)
    ELSE Returned(SongInfo(outcome.ids, "Title 1", "Artist 1", outcome.urls,
                           None, {link(k)}))

InitMerge ==
    /\ msg = NoMessage
    /\ phase = "gather"
    /\ \E n \in 1..MaxInfos :
          /\ song_urls = [k \in 1..n |-> SongUrl(PlatformOf("deezer"), link(k))]
          /\ \E outcomes \in [1..n -> MergeOutcomes] :
                tasks = [k \in 1..n |->
                            Task("done", song_urls[k], 0,
                                 MergeResult(outcomes[k], k))]
    /\ cache = <<>>
    /\ api_ready = TRUE
    /\ song_infos = <<>>
    /\ raised = "none"
    /\ outbox = <<>>
    /\ looked_up = FALSE
    /\ requested = FALSE
    /\ calls = <<>>
    /\ earlier = <<>>
    /\ resolved = <<>>
    /\ throttle = <<>>
    /\ answered = NoAnswer
    /\ Started

\* The tuple _find_songs builds from the gathered results.
gathered == gathered_song_infos(song_urls, [k \in DOMAIN tasks |-> tasks[k].result])

\* `self._merge_same_songs(song_infos)` on the gathered tuple.
Merge ==
    /\ phase = "gather"
    /\ song_infos' = _merge_same_songs(gathered)
    /\ phase' = "merged"
    /\ UNCHANGED <<dotenv, environ, config, startup, msg, song_urls, tasks,
                   cache, api_ready, raised, outbox, looked_up, requested,
                   calls, earlier, resolved, throttle, answered>>

\* `self._merge_same_songs(...)` on the tuple it returned.
Remerge ==
    /\ phase = "merged"
    /\ song_infos' = _merge_same_songs(song_infos)
    /\ phase' = "remerged"
    /\ UNCHANGED <<dotenv, environ, config, startup, msg, song_urls, tasks,
                   cache, api_ready, raised, outbox, looked_up, requested,
                   calls, earlier, resolved, throttle, answered>>

NextMerge == Merge \/ Remerge

SpecMerge == InitMerge /\ [][NextMerge]_vars

(***************************************************************************)
(* SpecPass: _merge_same_songs applied once to the gathered results of up  *)
(* to MaxInfos links of one message, each found song with a title of its   *)
(* own, and with a link that may stand twice in the message.               *)
(***************************************************************************)
\* What a resolution came to: identifiers and platform URLs (two platforms,
\* in registry order), or a failure; `again` tells that the link is the
\* first link of the message once more.
PassOutcomes ==
    LET PassUrls ==
            { << [name |-> "Deezer", url |-> "https://www.test.com/d"],
                 [name |-> "Spotify", url |-> "https://www.test.com/s"] >>,
              << [name |-> "SoundCloud", url |-> "https://www.test.com/c"],
                 [name |-> "Spotify", url |-> "https://www.test.com/s"] >> }
    IN  {[ids |-> ids, urls |-> urls, again |-> FALSE] :
            ids \in MergeIds, urls \in PassUrls}
        \cup {[ids |-> {}, urls |-> <<>>, again |-> again] : again \in BOOLEAN}

\* The link at position k of the message.
pass_link(outcome, k) == IF outcome.again THEN link(1) ELSE link(k)

\* What gather holds for the link at position k.
PassResult(outcome, k) ==
    IF outcome.ids = {} THEN Raised("APIError", HTTP_INTERNAL_SERVER_ERROR)
    ELSE Returned(SongInfo(outcome.ids, ToString(k), "Artist 1", outcome.urls,
                           None, {pass_link(outcome, k)}))

InitPass ==
    /\ msg = NoMessage
    /\ phase = "gather"
    /\ \E n \in 1..MaxInfos :
          \E outcomes \in [1..n -> PassOutcomes] :
              /\ song_urls = [k \in 1..n |->
                                 SongUrl(PlatformOf("deezer"),
                                         pass_link(outcomes[k], k))]
              /\ tasks = [k \in 1..n |->
                             Task("done", song_urls[k], 0,
                                  PassResult(outcomes[k], k))]
    /\ cache = <<>>
    /\ api_ready = TRUE
    /\ song_infos = <<>>
    /\ raised = "none"
    /\ outbox = <<>>
    /\ looked_up = FALSE
    /\ requested = FALSE
    /\ calls = <<>>
    /\ earlier = <<>>
    /\ resolved = <<>>
    /\ throttle = <<>>
    /\ answered = NoAnswer
    /\ Started

NextPass == Merge

SpecPass == InitPass /\ [][NextPass]_vars

(***************************************************************************)
(* SpecReply: handle_message from the return of gather on, over texts      *)
(* where a link may stand twice and where one link begins with another.    *)
(* The service knows the two deezer tracks as two songs and the spotify    *)
(* track as one or the other of them; it finds the songs of the deezer     *)
(* links on Deezer and Spotify, the song of the spotify link on SoundCloud *)
(* and Spotify.                                                            *)
(***************************************************************************)
\* What the resolution of url may come to: the song, or a failure.
ReplyResults(url) ==
    LET ids == IF url.p = "spotify" THEN {{"A"}, {"B"}}
               ELSE IF url = d1 THEN {{"A"}} ELSE {{"B"}}
        first == IF url.p = "spotify"
                 THEN [name |-> "SoundCloud", url |-> "https://www.test.com/sc"]
                 ELSE [name |-> "Deezer", url |-> "https://www.test.com/d"]
    IN  {Returned(SongInfo(song, "Title 1", "Artist 1",
                           << first,
                              [name |-> "Spotify", url |-> "https://www.test.com/s"] >>,
                           None, {url})) : song \in ids}
        \cup {Raised("APIError", HTTP_INTERNAL_SERVER_ERROR)}

InitReply ==
    /\ \E chat_type \in ChatTypes :
          \E text \in SeqsUpTo({Word, Link(d1), Link(d12), Link(s1)},
                               MaxExtractTokens) :
              msg = Message("message", chat_type, text)
    /\ phase = "gather"
    /\ song_urls = extract_song_urls(msg.text, group_message(msg))
    /\ song_urls # <<>>
    /\ \E results \in [1..Len(song_urls) ->
                          UNION {ReplyResults(url) : url \in {d1, d12, s1}}] :
          /\ \A k \in 1..Len(song_urls) :
                 results[k] \in ReplyResults(song_urls[k].url)
          /\ tasks = [k \in 1..Len(song_urls) |->
                         Task("done", song_urls[k], 0, results[k])]
    /\ cache = <<>>
    /\ api_ready = TRUE
    /\ song_infos = <<>>
    /\ raised = "none"
    /\ outbox = <<>>
    /\ looked_up = FALSE
    /\ requested = FALSE
    /\ calls = <<>>
    /\ earlier = <<>>
    /\ resolved = <<>>
    /\ throttle = <<>>
    /\ answered = NoAnswer
    /\ Started

NextReply ==
    \/ Gathered
    \/ \E outcome \in DeleteOutcomes : DeleteMessage(outcome)

SpecReply == InitReply /\ [][NextReply]_vars

(***************************************************************************)
(* SpecProcess: one request of find_song_by_url answered 200 with a body   *)
(* of up to MaxEntities entities, each with a title, an artist or none, a  *)
(* thumbnail of its own, an empty one or none, and with links on           *)
(* registered and unregistered platforms or on unregistered ones only.     *)
(* The response is kept in `answered`.                                     *)
(***************************************************************************)
ProcessBodies ==
    LET entities ==
            UNION {[1..n -> {[title |-> title, artistName |-> artist,
                              thumbnailUrl |-> thumbnail] :
                                title \in {"Title 1", "Title 2"},
                                artist \in {"Artist 1", "Artist 2", Missing},
                                thumbnail \in {Missing, "", "http://thumb"}}] :
                   n \in 1..MaxEntities}
        links ==
            { << PlatformLink("spotify", "https://www.test.com/s"),
                 PlatformLink("amazonMusic", "https://www.test.com/a"),
                 PlatformLink("deezer", "https://www.test.com/d") >>,
              << PlatformLink("amazonMusic", "https://www.test.com/a") >> }
    IN  {Body(TRUE,
              [k \in 1..Len(e) |->
                  Entity(ToString(k), e[k].title, e[k].artistName,
                         IF e[k].thumbnailUrl = "http://thumb"
                         THEN "http://thumb" \o ToString(k)
                         ELSE e[k].thumbnailUrl)],
              l) : e \in entities, l \in links}

InitProcess ==
    /\ msg = NoMessage
    /\ phase = "gather"
    /\ song_urls = <<SongUrl(PlatformOf("deezer"), d1)>>
    /\ tasks = <<Task("in_flight", song_urls[1], 0, NoResult)>>
    /\ cache = <<>>
    /\ api_ready = TRUE
    /\ song_infos = <<>>
    /\ raised = "none"
    /\ outbox = <<>>
    /\ looked_up = FALSE
    /\ requested = FALSE
    /\ calls = <<>>
    /\ earlier = <<>>
    /\ resolved = <<>>
    /\ throttle = <<>>
    /\ answered = NoAnswer
    /\ Started

\* The response to the request arrives and is handled.
NextProcess ==
    /\ tasks[1].pc = "in_flight"
    /\ \E body \in ProcessBodies :
           /\ Respond(1, Response(HTTP_OK, body))
           /\ answered' = Response(HTTP_OK, body)
    /\ UNCHANGED <<dotenv, environ, config, startup, msg, phase, song_urls,
                   song_infos, raised, outbox, looked_up, requested, calls,
                   earlier, resolved, throttle>>

SpecProcess == InitProcess /\ [][NextProcess]_vars

(***************************************************************************)
(* SpecConfig: load_config of Config or TestConfig, over the environments  *)
(* and .env files that name BOT_API_TOKEN, SENTRY_DSN and a variable the   *)
(* classes do not define, with the prefix and without it.                  *)
(***************************************************************************)
Environs(names) ==
    UNION {[given -> {"test_token", "x"}] : given \in SUBSET names}

InitConfig ==
    /\ dotenv \in Environs({EnvVar(env_prefix, "BOT_API_TOKEN"),
                            EnvVar(env_prefix, "SENTRY_DSN")})
    /\ environ \in Environs({EnvVar(env_prefix, "BOT_API_TOKEN"),
                             EnvVar(env_prefix, "CHAT_ID"),
                             EnvVar("", "BOT_API_TOKEN")})
    /\ config = NotLoaded
    /\ startup = Startup("start", Unlimited, 1, 0, 0, 0, "none")
    /\ msg = NoMessage
    /\ phase = "idle"
    /\ song_urls = <<>>
    /\ tasks = <<>>
    /\ cache = <<>>
    /\ api_ready = TRUE
    /\ song_infos = <<>>
    /\ raised = "none"
    /\ outbox = <<>>
    /\ looked_up = FALSE
    /\ requested = FALSE
    /\ calls = <<>>
    /\ earlier = <<>>
    /\ resolved = <<>>
    /\ throttle = <<>>
    /\ answered = NoAnswer

\* cls.load_config()
LoadConfig(cls) ==
    /\ config = NotLoaded
    /\ environ' = load_dotenv(environ, dotenv)
    /\ config' = load_config(cls, environ')
    /\ UNCHANGED <<dotenv, startup, msg, phase, song_urls, tasks, cache,
                   api_ready, song_infos, raised, outbox, looked_up,
                   requested, calls, earlier, resolved, throttle, answered>>

NextConfig == \E cls \in {"Config", "TestConfig"} : LoadConfig(cls)

SpecConfig == InitConfig /\ [][NextConfig]_vars

(***************************************************************************)
(* SpecStart: start() with TG_MAX_RETRIES None or up to MaxTgRetries and   *)
(* TG_RETRY_TIME up to MaxRetryTime, every attempt ending in any of the    *)
(* outcomes; with no limit of its own a bot makes MaxTgRetries + 2         *)
(* attempts at most.                                                       *)
(***************************************************************************)
InitStart ==
    /\ dotenv = <<>>
    /\ environ = <<>>
    /\ config = load_config("TestConfig", <<>>)
    /\ \E N \in {Unlimited} \cup 0..MaxTgRetries, T \in 1..MaxRetryTime :
           startup = Startup("start", N, T, 0, 0, 0, "none")
    /\ msg = NoMessage
    /\ phase = "idle"
    /\ song_urls = <<>>
    /\ tasks = <<>>
    /\ cache = <<>>
    /\ api_ready = TRUE
    /\ song_infos = <<>>
    /\ raised = "none"
    /\ outbox = <<>>
    /\ looked_up = FALSE
    /\ requested = FALSE
    /\ calls = <<>>
    /\ earlier = <<>>
    /\ resolved = <<>>
    /\ throttle = <<>>
    /\ answered = NoAnswer

\* The handlers and the environment take no part in the start.
Starting ==
    UNCHANGED <<dotenv, environ, config, msg, phase, song_urls, tasks,
                api_ready, song_infos, raised, outbox, looked_up, requested,
                calls, earlier, resolved, throttle, answered>>

NextStart ==
    \/ /\ startup.attempts < MaxTgRetries + 2
       /\ \E outcome \in ConnectOutcomes : Connect(outcome) /\ Starting
    \/ Tick /\ Starting
    \/ Retry /\ Starting

SpecStart == InitStart /\ [][NextStart]_vars

(***************************************************************************)
(* SpecResolve: find_song_by_url coroutines started at any time in the     *)
(* slots, interleaved at every await, over one cache and one gate.         *)
(***************************************************************************)
Slots == {1, 2}

ResolveUrls == {d1, d1u, s1}

\* The song a URL names, whatever its tracking parameters.
song_of(url) == [p |-> url.p, id |-> url.id]

\* The resolution has handled no 429 response and has not waited.
NotThrottled == [limited |-> 0, cycles |-> 0, waited |-> FALSE]

InitResolve ==
    /\ msg = NoMessage
    /\ phase = "idle"
    /\ song_urls = <<>>
    /\ tasks = [i \in Slots |-> IdleTask]
    /\ cache = <<>>
    /\ api_ready = TRUE
    /\ song_infos = <<>>
    /\ raised = "none"
    /\ outbox = <<>>
    /\ looked_up = FALSE
    /\ requested = FALSE
    /\ calls = [i \in Slots |-> 0]
    /\ earlier = [i \in Slots |-> -1]
    /\ resolved = <<>>
    /\ throttle = [i \in Slots |-> NotThrottled]
    /\ answered = NoAnswer
    /\ Started

\* find_song_by_url(song_url) is called.
StartResolution(i, url) ==
    /\ tasks[i].pc \in {"idle", "done"}
    /\ tasks' = [tasks EXCEPT ![i] = NewTask(SongUrl(PlatformOf(url.p), url))]
    /\ calls' = [calls EXCEPT ![i] = 0]
    /\ earlier' = [earlier EXCEPT ![i] =
                      IF song_of(url) \in DOMAIN resolved
                      THEN resolved[song_of(url)] ELSE -1]
    /\ throttle' = [throttle EXCEPT ![i] = NotThrottled]
    /\ answered' = NoAnswer
    /\ UNCHANGED <<dotenv, environ, config, startup, msg, phase, song_urls,
                   cache, api_ready, song_infos, raised, outbox, looked_up,
                   requested, resolved>>

\* The history of a step of the coroutine in slot i; a resolution issues
\* MaxCalls requests at most.
Counted(i) ==
    /\ Issued(i) => calls[i] < MaxCalls
    /\ calls' = [calls EXCEPT ![i] = IF Issued(i) THEN @ + 1 ELSE @]
    /\ resolved' =
         IF tasks'[i].pc = "done" /\ tasks'[i].result.kind = "SongInfo"
         THEN LET song == song_of(tasks[i].song_url.url)
              IN  [k \in DOMAIN resolved \cup {song} |->
                      IF k = song THEN calls'[i] ELSE resolved[k]]
         ELSE resolved
    /\ UNCHANGED <<dotenv, environ, config, startup, msg, phase, song_urls,
                   song_infos, raised, outbox, looked_up, requested, earlier>>

\* SpecResolve keeps no history of the responses and of the gate.
Untraced == UNCHANGED <<throttle, answered>>

Running(i) == tasks[i].pc \notin {"idle", "done"}

\* A cache entry expires: what was resolved under it has to be resolved
\* again, by the coroutines under way too.
ExpireResolve(key) ==
    /\ Expire(key)
    /\ resolved' = [k \in DOMAIN resolved \ {song_of(key)} |-> resolved[k]]
    /\ earlier' = [i \in Slots |->
                      IF Running(i) /\ song_of(tasks[i].song_url.url) = song_of(key)
                      THEN -1 ELSE earlier[i]]
    /\ answered' = NoAnswer
    /\ UNCHANGED <<dotenv, environ, config, startup, msg, phase, song_urls,
                   tasks, api_ready, song_infos, raised, outbox, looked_up,
                   requested, calls, throttle>>

NextResolve ==
    \/ \E i \in Slots, url \in ResolveUrls : StartResolution(i, url)
    \/ \E i \in Slots : LoopTop(i) /\ Counted(i) /\ Untraced
    \/ \E i \in Slots : Gate(i) /\ Counted(i) /\ Untraced
    \/ \E i \in Slots : Woken(i) /\ Counted(i) /\ Untraced
    \/ \E i \in Slots :
          \E response \in Responses(cache_key(tasks[i].song_url)) :
              Respond(i, response) /\ Counted(i) /\ Untraced
    \/ \E i \in Slots : ConnectionError(i) /\ Counted(i) /\ Untraced
    \/ \E i \in Slots : BackoffEnd(i) /\ Counted(i) /\ Untraced
    \/ \E i \in Slots : SleepEnd(i) /\ Counted(i) /\ Untraced
    \/ \E key \in ResolveUrls : ExpireResolve(key)

SpecResolve == InitResolve /\ [][NextResolve]_vars

(***************************************************************************)
(* SpecThrottle: the coroutines of SpecResolve over two links, with the    *)
(* history of the responses they handle and of the gate.                   *)
(***************************************************************************)
ThrottleUrls == {d1, s1}

\* The history of the gate in a step of the coroutine in slot i: a 429
\* cycle is over when the coroutine has set the event again, and the
\* coroutine waits when it finds the event cleared.
Throttled(i) ==
    throttle' = [throttle EXCEPT
        ![i].limited = IF answered' = Answer(i, HTTP_TOO_MANY_REQUESTS, FALSE)
                       THEN @ + 1 ELSE @,
        ![i].cycles = IF tasks[i].pc = "backoff" /\ tasks'[i].pc = "loop"
                      THEN @ + 1 ELSE @,
        ![i].waited = @ \/ tasks'[i].pc = "waiting"]

\* The step of slot i handled this response of the service.
Answered(i, response) ==
    answered' = Answer(i, response.status,
                       response.status = HTTP_OK /\ SchemaValid(response.body))

\* The step of slot i met a ClientConnectionError.
Refused(i) == answered' = Answer(i, 0, FALSE)

\* The step handled no response.
Unanswered == answered' = NoAnswer

NextThrottle ==
    \/ \E i \in Slots, url \in ThrottleUrls : StartResolution(i, url)
    \/ \E i \in Slots : LoopTop(i) /\ Counted(i) /\ Unanswered /\ Throttled(i)
    \/ \E i \in Slots : Gate(i) /\ Counted(i) /\ Unanswered /\ Throttled(i)
    \/ \E i \in Slots : Woken(i) /\ Counted(i) /\ Unanswered /\ Throttled(i)
    \/ \E i \in Slots :
          \E response \in Responses(cache_key(tasks[i].song_url)) :
              /\ Respond(i, response)
              /\ Counted(i) /\ Answered(i, response) /\ Throttled(i)
    \/ \E i \in Slots :
          ConnectionError(i) /\ Counted(i) /\ Refused(i) /\ Throttled(i)
    \/ \E i \in Slots :
          BackoffEnd(i) /\ Counted(i) /\ Unanswered /\ Throttled(i)
    \/ \E i \in Slots : SleepEnd(i) /\ Counted(i) /\ Unanswered /\ Throttled(i)
    \/ \E key \in ThrottleUrls : ExpireResolve(key)

SpecThrottle == InitResolve /\ [][NextThrottle]_vars

(***************************************************************************)
(* SpecFair: the coroutines of SpecThrottle with no bound on their         *)
(* requests and no history, under the scheduling of the event loop.        *)
(***************************************************************************)
\* A step of the coroutine in slot i.
Run(i) ==
    /\ \/ LoopTop(i)
       \/ Gate(i)
       \/ Woken(i)
       \/ \E response \in Responses(cache_key(tasks[i].song_url)) :
             Respond(i, response)
       \/ ConnectionError(i)
       \/ BackoffEnd(i)
       \/ SleepEnd(i)
    /\ UNCHANGED <<dotenv, environ, config, startup, msg, phase, song_urls,
                   song_infos, raised, outbox, looked_up, requested, calls,
                   earlier, resolved, throttle, answered>>

NextFair ==
    \/ \E i \in Slots, url \in ThrottleUrls : StartResolution(i, url)
    \/ \E i \in Slots : Run(i)
    \/ \E key \in ThrottleUrls : ExpireResolve(key)

\* The event loop runs every coroutine that can go on, every sleep ends, and
\* the service answers every request, with a response or a connection
\* failure: each coroutine takes a step whenever it can. Nothing makes the
\* service choose one answer rather than another.
SpecFair ==
    InitResolve /\ [][NextFair]_vars /\ \A i \in Slots : WF_vars(Run(i))

(***************************************************************************)
(* Properties of handle_message and handle_inline_query, under Spec.       *)
(***************************************************************************)
\* The handler has passed its reply: what it sent is in outbox.
Handled == phase \in {"delete", "returned"}

HandledMessage == msg.kind = "message" /\ Handled

\* The resolution of link k of the current message failed.
Failed(k) == tasks[k].result.kind # "SongInfo"

NotFound(k) == tasks[k].result = Raised("APIError", HTTP_NOT_FOUND)

AllFailed == tasks # <<>> /\ \A k \in DOMAIN tasks : Failed(k)

AllNotFound == tasks # <<>> /\ \A k \in DOMAIN tasks : NotFound(k)

Replies == SelectSeq(outbox, LAMBDA call : call.op = "reply")

IsSongReply(call) ==
    call.op = "reply" /\ call.text # NOT_FOUND_TEXT /\ call.lines # <<>>

OneSongReply == Len(Replies) = 1 /\ IsSongReply(Replies[1])

UsefulEntry ==
    \E k \in 1..Len(song_infos) : Len(song_infos[k].urls) >= 2

\* C1: for a handled message that is not the all-NotFound case,
\* handle_message sends no reply when every merged entry has at most one
\* platform URL, and one song reply when some merged entry has two or more.
C1_ReplyIffUsefulEntry ==
    (HandledMessage /\ ~AllNotFound) =>
        IF UsefulEntry THEN OneSongReply ELSE Replies = <<>>

\* A song was found on its own platform only, and nothing was sent.
C1_Witness ==
    /\ HandledMessage
    /\ \E k \in 1..Len(song_infos) : Len(song_infos[k].urls) = 1
    /\ ~UsefulEntry
    /\ outbox = <<>>

\* C2: when extraction finds no link in the text of a message, no cache
\* lookup and no network request is made, nothing is sent and the message is
\* not deleted.
C2_NoLinkNoWork ==
    ( /\ msg.kind = "message"
      /\ phase # "idle"
      /\ extract_song_urls(msg.text, group_message(msg)) = <<>> ) =>
        /\ ~looked_up
        /\ ~requested
        /\ outbox = <<>>
        /\ phase = "returned"

\* A group message whose only link is a YouTube one has been handled.
C2_Witness ==
    /\ msg.kind = "message"
    /\ phase = "returned"
    /\ \E k \in 1..Len(msg.text) : msg.text[k].t = "url"
    /\ ~HasSkipMark(msg.text)
    /\ extract_song_urls(msg.text, group_message(msg)) = <<>>

\* C3: if every link's resolution fails with a 404, exactly one reply is
\* sent, with the fixed not-found text and no line of its own, and nothing
\* else.
C3_AllNotFoundReply ==
    (HandledMessage /\ AllNotFound) =>
        /\ Len(outbox) = 1
        /\ outbox[1].op = "reply"
        /\ outbox[1].text = NOT_FOUND_TEXT
        /\ outbox[1].lines = <<>>
        /\ phase = "returned"

\* Two links, both 404, and the reply sent.
C3_Witness ==
    /\ HandledMessage
    /\ Len(tasks) >= 2
    /\ AllNotFound
    /\ outbox = <<NotFoundReply>>

\* C4: if every link's resolution fails and not every failure is a 404, no
\* reply of any kind is sent.
C4_OtherFailuresNoReply ==
    (HandledMessage /\ AllFailed /\ ~AllNotFound) => outbox = <<>>

\* A 404 and a server error in one message, and nothing sent.
C4_Witness ==
    /\ HandledMessage
    /\ AllFailed
    /\ \E k \in DOMAIN tasks : NotFound(k)
    /\ \E k \in DOMAIN tasks :
           tasks[k].result = Raised("APIError", HTTP_INTERNAL_SERVER_ERROR)
    /\ outbox = <<>>

\* The empty SongInfos of the failed links of the current message, in the
\* order of the links.
FailedLinks ==
    LET marked == [k \in DOMAIN tasks |->
                      [failed |-> Failed(k),
                       info |-> EmptySongInfo(song_urls[k].url)]]
        failed == SelectSeq(marked, LAMBDA m : m.failed)
    IN  [k \in 1..Len(failed) |-> failed[k].info]

\* The numbered lines of a reply to `infos`: a failed entry is its index and
\* its original URL, a found one its index, artist and title and then its
\* platform links.
RECURSIVE Rendering(_, _)
Rendering(infos, index) ==
    IF index > Len(infos) THEN <<>>
    ELSE (IF infos[index].ids = {}
          THEN << UrlLine(index, CHOOSE u \in infos[index].urls_in_text : TRUE) >>
          ELSE << SongLine(index, infos[index]), LinksLine(infos[index]) >>)
         \o Rendering(infos, index + 1)

PartialFailure ==
    /\ HandledMessage
    /\ \E k \in DOMAIN tasks : Failed(k)
    /\ \E k \in DOMAIN tasks : ~Failed(k)
    /\ UsefulEntry

C6_FailureConfined ==
    Handled => raised = "none"

\* C7, as stated: a text with the skip marker is ignored in a chat message
\* and in an inline query alike.
C7_SkipMarkEverywhere ==
    (phase # "idle" /\ HasSkipMark(msg.text)) =>
        /\ song_urls = <<>>
        /\ ~looked_up
        /\ ~requested
        /\ outbox = <<>>

\* C7, amended: a chat message with the skip marker is ignored before
\* extraction (no link, no lookup, no request, no reply); an inline query is
\* not tested for the marker and has its links extracted as any other.
C7_SkipMarkInMessages ==
    /\ (msg.kind = "message" /\ phase # "idle" /\ HasSkipMark(msg.text)) =>
           /\ song_urls = <<>>
           /\ ~looked_up
           /\ ~requested
           /\ outbox = <<>>
           /\ phase = "returned"
    /\ (msg.kind = "inline_query" /\ phase # "idle") =>
           song_urls = extract_song_urls(msg.text, FALSE)

\* A chat message with the marker and a link has been handled.
C7_Witness ==
    /\ msg.kind = "message"
    /\ phase = "returned"
    /\ HasSkipMark(msg.text)
    /\ \E k \in 1..Len(msg.text) : msg.text[k].t = "url"
    /\ outbox = <<>>

YoutubeLinks(text) ==
    SelectSeq(text, LAMBDA tok : tok.t = "url" /\ tok.u.p = "youtube")

\* C8: in a group or supergroup message the youtube links are not extracted,
\* resolved or numbered and stay verbatim in the quoted text; in a private
\* message and in an inline query they are extracted and resolved.
C8_YoutubeSkippedInGroups ==
    /\ (msg.kind = "message" /\ msg.chat_type \in {"group", "supergroup"}
        /\ phase # "idle") =>
           /\ \A k \in 1..Len(song_urls) : song_urls[k].platform_key # "youtube"
           /\ \A k \in DOMAIN tasks :
                  tasks[k].song_url.platform_key # "youtube"
           /\ \A k \in 1..Len(song_infos) :
                  \A u \in song_infos[k].urls_in_text : u.p # "youtube"
           /\ \A r \in 1..Len(Replies) :
                  IsSongReply(Replies[r]) =>
                      /\ Replies[r].lines[1].k = "quote"
                      /\ YoutubeLinks(Replies[r].lines[1].text)
                             = YoutubeLinks(msg.text)
    /\ (phase # "idle"
        /\ \/ msg.kind = "inline_query"
           \/ msg.kind = "message" /\ msg.chat_type = "private"
              /\ ~HasSkipMark(msg.text)) =>
           /\ LET found == SelectSeq(song_urls,
                               LAMBDA su : su.platform_key = "youtube")
              IN  [k \in 1..Len(found) |-> Link(found[k].url)]
                      = YoutubeLinks(msg.text)
           /\ Len(tasks) = Len(song_urls)
           /\ \A k \in DOMAIN tasks :
                  /\ tasks[k].song_url = song_urls[k]
                  /\ Handled => tasks[k].pc = "done"

\* A supergroup message with a youtube link and another one was answered:
\* the youtube link is in the quoted text, the other one is a footnote.
C8_Witness ==
    /\ msg.kind = "message"
    /\ msg.chat_type = "supergroup"
    /\ Handled
    /\ YoutubeLinks(msg.text) # <<>>
    /\ OneSongReply
    /\ YoutubeLinks(Replies[1].lines[1].text) = YoutubeLinks(msg.text)
    /\ \E k \in 1..Len(Replies[1].lines[1].text) :
           Replies[1].lines[1].text[k].t = "fn"

(***************************************************************************)
(* Properties of extract_song_urls, under SpecExtract.                     *)
(***************************************************************************)
\* The links of a text that extraction does not leave out, left to right.
LinksOf(text, skip_youtube) ==
    SelectSeq(text, LAMBDA tok : /\ tok.t = "url"
                                 /\ ~(skip_youtube /\ tok.u.p = "youtube"))

UrlsOf(urls) == [k \in 1..Len(urls) |-> urls[k].url]

\* C9: extract_song_urls returns the links grouped by platform in ascending
\* registry order and, within a platform, in left-to-right order of
\* occurrence, one link for each match.
C9_GroupedByPlatform ==
    phase = "returned" =>
        LET links == LinksOf(msg.text, msg.chat_type = "group")
        IN  /\ Len(song_urls) = Len(links)
            /\ \A j, k \in 1..Len(song_urls) :
                   j < k => PlatformOf(song_urls[j].platform_key).order
                                <= PlatformOf(song_urls[k].platform_key).order
            /\ \A key \in PlatformKeys :
                   UrlsOf(SelectSeq(song_urls,
                                    LAMBDA su : su.platform_key = key))
                       = [k \in 1..Len(SelectSeq(links,
                                           LAMBDA tok : tok.u.p = key)) |->
                              SelectSeq(links, LAMBDA tok : tok.u.p = key)[k].u]

\* A spotify link ahead of two deezer links in the text comes out last, the
\* deezer links in their order.
C9_Witness ==
    /\ phase = "returned"
    /\ msg.text = <<Link(s1), Link(d2), Link(d1)>>
    /\ UrlsOf(song_urls) = <<d2, d1, s1>>

(***************************************************************************)
(* Properties of find_song_by_url, under SpecResolve.                      *)
(***************************************************************************)
\* What a resolution of `url` returns when the service knows the song.
Resolved(url) ==
    process_api_response(
        ApiResponseSchema(SongBody([url EXCEPT !.utm = FALSE])), url)

\* C10, amended: once a resolution of a link has succeeded, a later
\* resolution of a link of the same normalized URL, within the TTL, issues
\* no network request and returns the cached song; the earlier resolution
\* may have issued more than one request.
C10_LaterResolutionFromCache ==
    \A i \in Slots :
        earlier[i] >= 0 =>
            /\ calls[i] = 0
            /\ tasks[i].pc \in {"new", "done"}
            /\ tasks[i].pc = "done" =>
                   tasks[i].result = Resolved(tasks[i].song_url.url)

\* C10, as stated: two sequential resolutions of the same normalized URL
\* issue at most one network call between them.
C10_AtMostOneCall ==
    \A i \in Slots :
        (earlier[i] >= 0 /\ tasks[i].pc = "done") =>
            earlier[i] + calls[i] <= 1

\* A link with tracking parameters was resolved from the cache after an
\* earlier resolution of the song had gone to the network.
C10_Witness ==
    \E i \in Slots :
        /\ earlier[i] >= 1
        /\ tasks[i].pc = "done"
        /\ tasks[i].song_url.url = d1u
        /\ tasks[i].result.kind = "SongInfo"
        /\ calls[i] = 0

\* C11: a cache hit returns the ids, title, artist, thumbnail and platform
\* URLs of the cached entry, and as urls_in_text the one raw URL of the link
\* being resolved, not the URL the entry was cached with.
C11_CacheHitResult ==
    [][\A i \in Slots :
          ( /\ tasks[i].pc \in {"new", "loop"}
            /\ tasks'[i].pc = "done"
            /\ tasks'[i].result.kind = "SongInfo" ) =>
              LET url == tasks[i].song_url.url
                  key == [url EXCEPT !.utm = FALSE]
                  song == tasks'[i].result.song
              IN  /\ key \in DOMAIN cache
                  /\ song.ids = cache[key].ids
                  /\ song.title = cache[key].title
                  /\ song.artist = cache[key].artist
                  /\ song.thumbnail_url = cache[key].thumbnail_url
                  /\ song.urls = cache[key].urls
                  /\ song.urls_in_text = {url}]_vars

\* A link with tracking parameters was answered from an entry cached for the
\* link without them.
C11_Witness ==
    \E i \in Slots :
        /\ tasks[i].pc = "done"
        /\ tasks[i].song_url.url = d1u
        /\ calls[i] = 0
        /\ tasks[i].result.kind = "SongInfo"
        /\ d1 \in DOMAIN cache
        /\ cache[d1].urls_in_text = {d1}
        /\ tasks[i].result.song.urls_in_text = {d1u}
        /\ tasks[i].result.song.ids = cache[d1].ids

\* C12: every cache entry has a non-empty id set, and the cache is written
\* only by a step that handled a 200 response whose body passed validation
\* and was processed into a SongInfo, which is the value stored under the
\* normalized URL; a 404, another status, a 429, an invalid payload and a
\* connection failure leave the cache as it was (entries otherwise only
\* expire).
C12_CacheWrittenOnSuccess ==
    /\ [](\A k \in DOMAIN cache : cache[k].ids # {})
    /\ [][cache' # cache =>
            \/ /\ answered' = NoAnswer
               /\ \E key \in DOMAIN cache :
                     cache' = [k \in DOMAIN cache \ {key} |-> cache[k]]
            \/ \E i \in Slots :
                  /\ answered' = Answer(i, HTTP_OK, TRUE)
                  /\ tasks[i].pc = "in_flight"
                  /\ tasks'[i].pc = "done"
                  /\ tasks'[i].result.kind = "SongInfo"
                  /\ cache' = cache_set(cache,
                                        [tasks[i].song_url.url EXCEPT !.utm = FALSE],
                                        tasks'[i].result.song)]_vars

\* A valid 200 response has just been stored, after an earlier answer of the
\* service for the same resolution that was not stored.
C12_Witness ==
    \E i \in Slots :
        /\ answered = Answer(i, HTTP_OK, TRUE)
        /\ tasks[i].pc = "done"
        /\ tasks[i].result.kind = "SongInfo"
        /\ calls[i] = 2
        /\ tasks[i].song_url.url \in DOMAIN cache
        /\ cache[tasks[i].song_url.url] = tasks[i].result.song
        /\ cache[tasks[i].song_url.url].ids # {}

\* C13: a 429 closes the gate and is followed by exactly one sleep and
\* reopening before the request is repeated, so a resolution answered 429
\* once and then 200 succeeds after one such cycle; a resolution that finds
\* the gate closed waits while it is closed, goes on to its own request once
\* it is reopened, never fails because of the gate, and a successful result
\* is the one of its own link.
C13_OneCycleThenSuccess ==
    /\ [](\A i \in Slots :
             /\ throttle[i].limited =
                    throttle[i].cycles + (IF tasks[i].pc = "backoff" THEN 1 ELSE 0)
             /\ tasks[i].pc = "waiting" => ~api_ready
             /\ (tasks[i].pc = "done" /\ tasks[i].result.kind = "SongInfo") =>
                    tasks[i].result = Resolved(tasks[i].song_url.url))
    /\ [][\A i \in Slots :
             /\ answered' = Answer(i, HTTP_TOO_MANY_REQUESTS, FALSE) =>
                    tasks'[i].pc = "backoff" /\ ~api_ready'
             /\ (tasks[i].pc = "backoff" /\ tasks'[i] # tasks[i]) =>
                    tasks'[i].pc = "loop" /\ api_ready'
             /\ (tasks[i].pc = "waiting" /\ tasks'[i] # tasks[i]) =>
                    tasks'[i].pc = "woken" /\ api_ready'
             /\ (tasks[i].pc = "woken" /\ tasks'[i] # tasks[i]) =>
                    tasks'[i].pc = "in_flight"
             /\ answered' = Answer(i, HTTP_OK, TRUE) =>
                    /\ tasks'[i].pc = "done"
                    /\ tasks'[i].result.kind # "APIError"]_vars

\* One resolution was answered 429 and then 200 and has succeeded after one
\* cycle; the resolution of another link waited at the closed gate meanwhile
\* and has succeeded too.
C13_Witness ==
    \E i, j \in Slots :
        /\ tasks[i].pc = "done" /\ tasks[j].pc = "done"
        /\ tasks[i].song_url.url # tasks[j].song_url.url
        /\ tasks[i].result.kind = "SongInfo"
        /\ calls[i] = 2
        /\ throttle[i] = [limited |-> 1, cycles |-> 1, waited |-> FALSE]
        /\ tasks[j].result.kind = "SongInfo"
        /\ throttle[j].waited
        /\ calls[j] = 1
        /\ tasks[j].result.song.urls_in_text = {tasks[j].song_url.url}

\* C14: a 429 response leaves the retry counter of the resolution as it was
\* and never ends the resolution, so no result is a failure with status 429;
\* the counter grows only, and by one, in a step that met a connection
\* failure.
C14_ThrottleNotCounted ==
    /\ [](\A i \in Slots :
             tasks[i].result.status_code # HTTP_TOO_MANY_REQUESTS)
    /\ [][\A i \in Slots :
             /\ answered' = Answer(i, HTTP_TOO_MANY_REQUESTS, FALSE) =>
                    /\ tasks'[i].retries = tasks[i].retries
                    /\ tasks'[i].pc # "done"
                    /\ tasks'[i].result = NoResult
             /\ answered' = Answer(i, 0, FALSE) =>
                    tasks'[i].retries = tasks[i].retries + 1
             /\ tasks'[i].retries > tasks[i].retries =>
                    answered' = Answer(i, 0, FALSE)]_vars

\* A resolution that has had a connection failure has just been answered
\* 429: the counter still reads one.
C14_Witness ==
    \E i \in Slots :
        /\ answered = Answer(i, HTTP_TOO_MANY_REQUESTS, FALSE)
        /\ tasks[i].pc = "backoff"
        /\ tasks[i].retries = 1
        /\ calls[i] = 2
        /\ throttle[i].limited = 1

\* C15: a connection failure is counted and followed by a sleep and another
\* pass of the loop; the count is kept through 429 cycles; a request is
\* attempted only while fewer than API_MAX_RETRIES attempts have failed, so
\* at most API_MAX_RETRIES attempts end in a connection failure; after the
\* API_MAX_RETRIES-th the resolution raises an APIError without status, and
\* it never raises it earlier.
C15_RetriesBounded ==
    /\ [](\A i \in DOMAIN tasks :
             /\ tasks[i].retries <= API_MAX_RETRIES
             /\ tasks[i].pc \in {"gate", "waiting", "woken", "in_flight",
                                 "backoff"} =>
                    tasks[i].retries < API_MAX_RETRIES)
    /\ [][\A i \in DOMAIN tasks \cap DOMAIN tasks' :
             LET before == tasks[i]
                 after == tasks'[i]
             IN  /\ (before.pc = "in_flight" /\ after.pc = "conn_sleep") =>
                        after.retries = before.retries + 1
                 /\ (before.pc = "conn_sleep" /\ after # before) =>
                        after.pc = "loop" /\ after.retries = before.retries
                 /\ (before.pc \in {"in_flight", "backoff"}
                       /\ after.pc \in {"backoff", "loop"}) =>
                        after.retries = before.retries
                 /\ (before.pc = "loop" /\ after # before
                       /\ before.retries = API_MAX_RETRIES) =>
                        after.pc = "done" /\ after.result = Raised("APIError", 0)
                 /\ (before.pc \in {"new", "loop"} /\ after.pc = "done"
                       /\ before.retries < API_MAX_RETRIES) =>
                        after.result.kind = "SongInfo"]_vars

\* The resolution of a deezer link (the service never sends it an invalid
\* body) has raised the APIError without status: its attempts all failed.
C15_Witness ==
    \E i \in DOMAIN tasks :
        /\ tasks[i].pc = "done"
        /\ tasks[i].song_url.platform_key = "deezer"
        /\ tasks[i].result = Raised("APIError", 0)
        /\ requested

\* C16: every request is issued at a moment when the gate is open, whether
\* the resolution found the gate open or waited for it to reopen.
C16_RequestsOnlyWhenOpen ==
    [][\A i \in Slots : Issued(i) => api_ready]_vars

\* C17: whatever the service answers (200, 404, other statuses, 429,
\* invalid payloads, connection failures), under fair scheduling every
\* resolution that was started comes to an end, by a result or an exception,
\* so that the gather of a message handling completes.
C17_EveryResolutionReturns ==
    \A i \in Slots : (tasks[i].pc = "new") ~> (tasks[i].pc = "done")

\* The position in the gathered tuple of the entry that survives at
\* position k of the merged tuple.
Origin(k) ==
    Ascending((1..Len(gathered)) \ merged_song_info_indexes(gathered))[k]

\* The gathered entries that went into the entry at position k of the merged
\* tuple, itself included: those whose link it carries.
AbsorbedInto(k) ==
    {j \in 1..Len(gathered) :
        gathered[j].urls_in_text \subseteq song_infos[k].urls_in_text}

\* C18: merging what a merge returned gives the same tuple (same entries in
\* the same order, with the same ids, platform URLs and source URLs).
C18_MergeIdempotent ==
    phase = "remerged" => song_infos = _merge_same_songs(gathered)

\* C19: the ids of every entry of the merged tuple are the union of the ids
\* of the gathered entries that went into it, directly or through an
\* absorbed entry.
C19_IdsAreUnion ==
    phase = "merged" =>
        \A k \in 1..Len(song_infos) :
            song_infos[k].ids = UNION {gathered[j].ids : j \in AbsorbedInto(k)}

\* C20: the platform URLs of every entry of the merged tuple have every
\* platform of every gathered entry absorbed into it, with the surviving
\* entry's own URL for a platform it had itself, whatever its URLs were
\* (none included).
C20_UrlsAreUnion ==
    phase = "merged" =>
        \A k \in 1..Len(song_infos) :
            \A j \in AbsorbedInto(k) \ {Origin(k)} :
                \A n \in 1..Len(gathered[j].urls) :
                    LET name == gathered[j].urls[n].name
                        own == gathered[Origin(k)].urls
                    IN  /\ HasName(song_infos[k].urls, name)
                        /\ HasName(own, name) =>
                               UrlOfName(song_infos[k].urls, name)
                                   = UrlOfName(own, name)


\* C21: merging only goes forward.  Every gathered entry that went into an
\* entry of the merged tuple stands, in the gathered tuple, at or after the
\* entry that survives: the survivor of a group is its earliest entry, and
\* an entry that no earlier entry absorbed is an entry of the merged tuple.
C21_MergeForwardOnly ==
    phase = "merged" =>
        \A k \in 1..Len(song_infos) :
            \A j \in AbsorbedInto(k) : Origin(k) <= j

\* C22: merging is transitive forward.  Of three gathered entries A, B, C in
\* this order, A and B sharing an id and C sharing an id with B but none
\* with A, the merged tuple has one entry, and it is A.
C22_MergeTransitiveForward ==
    (/\ phase = "merged"
     /\ Len(gathered) = 3
     /\ \A j \in 1..3 : Truthy(gathered[j])
     /\ gathered[1].ids \cap gathered[2].ids # {}
     /\ gathered[3].ids \cap gathered[2].ids # {}
     /\ gathered[3].ids \cap gathered[1].ids = {})
        => Len(song_infos) = 1 /\ Origin(1) = 1


\* The entries of a tuple that have ids, and those that have none.
WithIds(infos) == SelectSeq(infos, LAMBDA song_info : song_info.ids # {})

WithoutIds(infos) == SelectSeq(infos, LAMBDA song_info : song_info.ids = {})

\* C23: entries without ids take no part in merging.  The entries without
\* ids of the merged tuple are those of the gathered tuple, each one
\* unchanged and an entry of its own, in the same order, two entries with
\* the same source URL included; and the entries with ids are merged as if
\* the entries without ids were not there.
C23_EmptyIdsNeverMerge ==
    phase = "merged" =>
        /\ WithoutIds(song_infos) = WithoutIds(gathered)
        /\ WithIds(song_infos) = _merge_same_songs(WithIds(gathered))

\* Two entries without ids and with the same source URL stand in the merged
\* tuple, around an entry that absorbed another one.
C23_Witness ==
    /\ phase = "merged"
    /\ Len(song_infos) = 3
    /\ Len(gathered) = 4
    /\ song_infos[1].ids = {} /\ song_infos[3].ids = {}
    /\ song_infos[1].urls_in_text = song_infos[3].urls_in_text
    /\ Cardinality(song_infos[2].urls_in_text) = 2

\* The entry `after` of a merged tuple is the entry `before` of the gathered
\* one: the same title, artist and thumbnail, and the source URLs of
\* `before` among its own.
SameEntry(after, before) ==
    /\ after.title = before.title
    /\ after.artist = before.artist
    /\ after.thumbnail_url = before.thumbnail_url
    /\ before.urls_in_text \subseteq after.urls_in_text

\* `after` is `before` with some entries left out, in the same order.
RECURSIVE Subsequence(_, _)
Subsequence(after, before) ==
    IF after = <<>> THEN TRUE
    ELSE IF before = <<>> THEN FALSE
    ELSE IF SameEntry(Head(after), Head(before))
    THEN Subsequence(Tail(after), Tail(before))
    ELSE Subsequence(after, Tail(before))

\* C24: the merged tuple is a subsequence of the gathered one: it is never
\* longer, and its entries are entries of the gathered tuple in the order
\* they had there.
C24_MergedIsSubsequence ==
    phase = "merged" =>
        /\ Len(song_infos) <= Len(gathered)
        /\ Subsequence(song_infos, gathered)

\* Of four gathered entries the third absorbed the first and the fourth was
\* left alone: two entries, the third and the fourth, in this order.
C24_Witness ==
    /\ phase = "merged"
    /\ Len(gathered) = 4
    /\ Len(song_infos) = 2
    /\ \A k \in 1..2 : song_infos[k].title = gathered[k + 2].title
    /\ gathered[1].urls_in_text \subseteq song_infos[1].urls_in_text
    /\ song_infos[1].ids # {}


\* A reply with the songs of the message has been sent.
SongReplySent == Handled /\ outbox # <<>> /\ IsSongReply(outbox[1])

\* The message has a token that is no link.
HasWords == \E p \in 1..Len(msg.text) : msg.text[p].t # "url"

\* The substituted text the reply opens with.
ReplyText == outbox[1].lines[1].text

\* C25: for a message that is not made of links only, the footnotes of the
\* reply match the merged entries: every source URL of entry i stands in the
\* reply as [i], nothing else of the text is changed, and each index 1..n
\* stands in the reply, also when a link stands twice in the message and
\* when a link begins with another one.
C25_FootnotesMatchEntries ==
    (SongReplySent /\ HasWords) =>
        /\ outbox[1].lines[1].k \in {"quote", "text"}
        /\ Len(ReplyText) = Len(msg.text)
        /\ \A p \in 1..Len(msg.text) :
               IF msg.text[p].t = "url"
               THEN \A i \in 1..Len(song_infos) :
                        msg.text[p].u \in song_infos[i].urls_in_text
                            => ReplyText[p] = Footnote(i)
               ELSE ReplyText[p] = msg.text[p]
        /\ \A i \in 1..Len(song_infos) :
               \E p \in 1..Len(ReplyText) : ReplyText[p] = Footnote(i)


\* The message is made of song links only: every token of its text is a link
\* the handler looks for (in a group it does not look for YouTube links).
LinksOnly ==
    /\ msg.text # <<>>
    /\ \A p \in 1..Len(msg.text) :
           /\ msg.text[p].t = "url"
           /\ ~(msg.chat_type \in {"group", "supergroup"}
                /\ msg.text[p].u.p = "youtube")

\* The lines of kind k of the reply.
ReplyLines(k) == SelectSeq(outbox[1].lines, LAMBDA line : line.k = k)

\* The positions of the merged entries with ids (TRUE) or without (FALSE).
Positions(found) ==
    Ascending({i \in 1..Len(song_infos) : (song_infos[i].ids # {}) = found})

\* C26: in a reply the line of a resolved entry has no index exactly when
\* the message is made of links only and there is one merged entry; in every
\* other reply the line of each entry, resolved or not, carries the 1-based
\* position of the entry in the merged tuple.
C26_IndexOmittedForSingleLink ==
    (HandledMessage /\ SongReplySent) =>
        /\ Len(ReplyLines("song")) = Len(Positions(TRUE))
        /\ Len(ReplyLines("url")) = Len(Positions(FALSE))
        /\ \A k \in 1..Len(Positions(TRUE)) :
               /\ ReplyLines("song")[k].title = song_infos[Positions(TRUE)[k]].title
               /\ ReplyLines("song")[k].index =
                      IF LinksOnly /\ Len(song_infos) = 1 THEN 0
                      ELSE Positions(TRUE)[k]
        /\ \A k \in 1..Len(Positions(FALSE)) :
               ReplyLines("url")[k].index = Positions(FALSE)[k]

\* The reply to a message that is one link: one entry, without index.
C26_Witness ==
    /\ HandledMessage /\ SongReplySent
    /\ LinksOnly
    /\ Len(song_infos) = 1
    /\ ReplyLines("song")[1].index = 0


\* C27: when the message is made of links only, the reply quotes no text, in
\* every chat type: it has no header line, neither the text alone nor the
\* line that attributes the text to its sender.
C27_NoQuoteForLinksOnly ==
    (HandledMessage /\ SongReplySent /\ LinksOnly) =>
        \A k \in 1..Len(outbox[1].lines) :
            outbox[1].lines[k].k \notin {"quote", "text"}


\* The positions in outbox of the delete requests.
Deletes == {p \in 1..Len(outbox) : outbox[p].op = "delete"}

\* C28: the original message is deleted only in a chat that is not private
\* and only after the reply with the songs of that message was sent: a
\* delete request stands in the calls of a message after the song reply,
\* never before it, never without it (no reply, or the not-found reply
\* alone) and never in a private chat; a message gets at most one reply and
\* at most one delete request.
C28_DeleteOnlyAfterSongReply ==
    /\ Len(Replies) <= 1
    /\ Cardinality(Deletes) <= 1
    /\ \A p \in Deletes :
           /\ msg.kind = "message"
           /\ msg.chat_type # "private"
           /\ \E q \in 1..(p - 1) : IsSongReply(outbox[q])

\* A group message has got its song reply and then the delete request.
C28_Witness ==
    /\ HandledMessage
    /\ msg.chat_type = "group"
    /\ Len(outbox) = 2
    /\ IsSongReply(outbox[1])
    /\ outbox[2].op = "delete"


\* C29: when Telegram refuses the delete request (MessageCantBeDeleted) the
\* failure is swallowed: handle_message has returned without exception, the
\* song reply is sent and is the only message sent, and the one refused
\* delete request is not followed by another.
C29_CannotDeleteSwallowed ==
    \A p \in Deletes :
        outbox[p].text = "MessageCantBeDeleted" =>
            /\ phase = "returned"
            /\ raised = "none"
            /\ Len(outbox) = 2
            /\ IsSongReply(outbox[1])
            /\ p = 2

\* The delete request of a supergroup message was refused.
C29_Witness ==
    /\ HandledMessage
    /\ msg.chat_type = "supergroup"
    /\ outbox # <<>>
    /\ outbox[Len(outbox)] = Delete("MessageCantBeDeleted")


\* The platform links shown for the entries: the links lines of a reply and
\* the links of the articles of an inline answer.
ShownLinks ==
    UNION {{outbox[p].lines[k].links :
               k \in {j \in 1..Len(outbox[p].lines) :
                          outbox[p].lines[j].k = "links"}}
           \cup {outbox[p].results[k].links :
                    k \in 1..Len(outbox[p].results)} :
           p \in 1..Len(outbox)}

\* The registry order of the platform of this name.
OrderOfName(name) ==
    PLATFORMS[CHOOSE k \in 1..Len(PLATFORMS) : PLATFORMS[k].name = name].order

\* C30: in every reply and inline card the platform links of an entry are
\* links of registered platforms, one for each, in ascending registry order,
\* for an entry resolved directly and for an entry produced by merging.
C30_LinksInRegistryOrder ==
    \A links \in ShownLinks :
        /\ \A k \in 1..Len(links) :
               \E n \in 1..Len(PLATFORMS) : PLATFORMS[n].name = links[k].name
        /\ \A j, k \in 1..Len(links) :
               j < k => OrderOfName(links[j].name) < OrderOfName(links[k].name)


\* C31: a handled inline query is answered by one call of
\* answer_inline_query and nothing else: with no result for an empty query,
\* with the one not-found card when every link failed with a 404, and
\* otherwise with one card for each merged entry that has ids, in their
\* order, and none for a failed entry (no card when every link failed
\* otherwise).
C31_InlineAnswer ==
    (Handled /\ msg.kind = "inline_query") =>
        /\ Len(outbox) = 1
        /\ outbox[1].op = "answer_inline_query"
        /\ IF msg.text = <<>> THEN outbox[1].results = <<>>
           ELSE IF AllNotFound THEN outbox[1].results = <<NotFoundArticle>>
           ELSE LET found == WithIds(song_infos)
                    cards == outbox[1].results
                IN  /\ Len(cards) = Len(found)
                    /\ \A k \in 1..Len(found) :
                           /\ cards[k].artist = found[k].artist
                           /\ cards[k].song = found[k].title
                           /\ cards[k].links = found[k].urls


\* The SongInfos of the state: the results of the resolutions, the entries
\* of the cache, and the merged tuple.
SongInfos ==
    {tasks[k].result.song :
        k \in {j \in DOMAIN tasks : tasks[j].result.kind = "SongInfo"}}
    \cup {cache[key] : key \in DOMAIN cache}
    \cup {song_infos[k] : k \in 1..Len(song_infos)}

\* C32: every SongInfo, fresh from the resolver, from the cache, put in place
\* of a failure or merged, has no ids if and only if it has no platform
\* URLs.
C32_IdsIffUrls ==
    \A song_info \in SongInfos : (song_info.ids = {}) <=> (song_info.urls = <<>>)


\* The titles and the artists of the entities of the response handled, in
\* entity order; an entity without artistName counts as '<Unknown>'.
EntityTitles ==
    [k \in 1..Len(answered.body.entities) |-> answered.body.entities[k].title]

EntityArtists ==
    [k \in 1..Len(answered.body.entities) |->
        IF answered.body.entities[k].artistName = Missing THEN "<Unknown>"
        ELSE answered.body.entities[k].artistName]

Times(values, value) == Cardinality({k \in 1..Len(values) : values[k] = value})

\* `value` is as frequent in `values` as any, and the first to occur among
\* the values as frequent as it.
MostFrequentFirst(values, value) ==
    \E k \in 1..Len(values) :
        /\ values[k] = value
        /\ \A j \in 1..Len(values) :
               Times(values, values[j]) <= Times(values, value)
        /\ \A j \in 1..(k - 1) :
               values[j] = value \/ Times(values, values[j]) < Times(values, value)

\* C34: the SongInfo made of a response has a title of greatest frequency
\* among the titles of the entities and an artist of greatest frequency among
\* their artists, each the first in entity order among equals and each chosen
\* without regard to the other, and the first non-empty thumbnail in entity
\* order, None if there is none.
C34_MostCommonTitleArtist ==
    tasks[1].result.kind = "SongInfo" =>
        LET song == tasks[1].result.song
            entities == answered.body.entities
        IN  /\ MostFrequentFirst(EntityTitles, song.title)
            /\ MostFrequentFirst(EntityArtists, song.artist)
            /\ \/ /\ song.thumbnail_url = None
                  /\ \A k \in 1..Len(entities) :
                         entities[k].thumbnailUrl \in {Missing, ""}
               \/ \E k \in 1..Len(entities) :
                      /\ entities[k].thumbnailUrl = song.thumbnail_url
                      /\ song.thumbnail_url \notin {Missing, ""}
                      /\ \A j \in 1..(k - 1) :
                             entities[j].thumbnailUrl \in {Missing, ""}

\* The title comes from the second and third entities, the artist from the
\* first of three artists that tie, no entity holds both, and the thumbnail
\* is the one after an empty one.
C34_Witness ==
    /\ tasks[1].result.kind = "SongInfo"
    /\ Len(answered.body.entities) = 3
    /\ EntityTitles = <<"Title 2", "Title 1", "Title 1">>
    /\ EntityArtists = <<"Artist 1", "Artist 2", "<Unknown>">>
    /\ answered.body.entities[1].thumbnailUrl = ""
    /\ answered.body.entities[2].thumbnailUrl = "http://thumb2"
    /\ tasks[1].result.song.title = "Title 1"
    /\ tasks[1].result.song.artist = "Artist 1"
    /\ tasks[1].result.song.thumbnail_url = "http://thumb2"


\* Two URLs that differ in their tracking parameters at most.
SameSong(url1, url2) == url1.p = url2.p /\ url1.id = url2.id

\* C33: nothing keeps two resolutions of links of one normalized URL apart:
\* both may miss the cache and have a request under way.  The answer of
\* each, when it is a song, is returned as a SongInfo with ids for the
\* answered link and stored under the normalized URL, whether the other
\* resolution is still waiting for its answer or has stored its own, and the
\* other resolution is left as it is; the cache never holds two entries for
\* one normalized URL.
C33_ConcurrentMisses ==
    /\ [](\A key1, key2 \in DOMAIN cache : SameSong(key1, key2) => key1 = key2)
    /\ [][\A i, j \in Slots :
             ( /\ i # j
               /\ SameSong(tasks[i].song_url.url, tasks[j].song_url.url)
               /\ tasks[i].pc = "in_flight"
               /\ tasks'[i].pc = "done"
               /\ tasks'[i].result.kind = "SongInfo"
               /\ \/ tasks[j].pc = "in_flight"
                  \/ /\ tasks[j].pc = "done"
                     /\ tasks[j].result.kind = "SongInfo"
                     /\ calls[j] >= 1 ) =>
                 LET url == tasks[i].song_url.url
                     key == [url EXCEPT !.utm = FALSE]
                     song == tasks'[i].result.song
                 IN  /\ song.ids # {}
                     /\ song.urls_in_text = {url}
                     /\ DOMAIN cache' = DOMAIN cache \cup {key}
                     /\ cache'[key] = song
                     /\ tasks'[j] = tasks[j]]_vars

\* The link with tracking parameters missed the cache and waits for the
\* answer to its request, while the resolution of the link without them,
\* which missed too, has had its one request answered and has stored the
\* song.
C33_Witness ==
    \E i, j \in Slots :
        /\ tasks[i].song_url.url = d1
        /\ tasks[i].pc = "done"
        /\ tasks[i].result.kind = "SongInfo"
        /\ calls[i] = 1
        /\ d1 \in DOMAIN cache
        /\ cache[d1] = tasks[i].result.song
        /\ tasks[j].song_url.url = d1u
        /\ tasks[j].pc = "in_flight"
        /\ calls[j] = 1


\* C35: the object Config.load_config() returns holds, for every variable
\* of the environment named with the prefix, the .env file included, the
\* value of that variable, whatever the class defines for it.
C35_EnvironmentOverrides ==
    config.cls = "Config" =>
        \A e \in DOMAIN environ :
            e.prefix = env_prefix =>
                /\ e.name \in DOMAIN config.attrs
                /\ config.attrs[e.name] = environ[e]


\* C36: with TG_MAX_RETRIES a number N, _start is called N + 1 times at most
\* and _tg_retries never exceeds N; an attempt that fails with a connection
\* error is followed by a sleep and a new attempt while fewer than N retries
\* were made, and by the stop of the bot and of the event loop otherwise,
\* after which nothing happens; the new attempt is made when TG_RETRY_TIME
\* has passed; with TG_MAX_RETRIES None every such failure is followed by a
\* sleep and a new attempt and the bot never stops.
C36_StartRetries ==
    /\ [](startup.TG_MAX_RETRIES # Unlimited =>
             /\ startup.attempts <= startup.TG_MAX_RETRIES + 1
             /\ startup.tg_retries <= startup.TG_MAX_RETRIES)
    /\ [](startup.pc = "stopped" =>
             /\ startup.TG_MAX_RETRIES # Unlimited
             /\ startup.tg_retries = startup.TG_MAX_RETRIES
             /\ startup.attempts = startup.TG_MAX_RETRIES + 1
             /\ startup.exc \in ConnectionErrors)
    /\ [][ /\ ( /\ startup.pc = "start"
                /\ startup'.attempts = startup.attempts + 1
                /\ startup'.exc \in ConnectionErrors ) =>
                  IF \/ startup.TG_MAX_RETRIES = Unlimited
                     \/ startup.tg_retries < startup.TG_MAX_RETRIES
                  THEN /\ startup'.pc = "sleep"
                       /\ startup'.tg_retries = startup.tg_retries + 1
                       /\ startup'.slept = 0
                  ELSE startup'.pc = "stopped"
           /\ (startup.pc = "sleep" /\ startup'.pc # "sleep") =>
                  /\ startup'.pc = "start"
                  /\ startup.slept = startup.TG_RETRY_TIME
                  /\ startup'.attempts = startup.attempts
           /\ startup.pc = "stopped" => startup' = startup ]_vars

\* With TG_MAX_RETRIES = 2 and TG_RETRY_TIME = 2 the third attempt has
\* failed like the two before it, and the bot has stopped.
C36_Witness ==
    /\ startup.pc = "stopped"
    /\ startup.TG_MAX_RETRIES = 2
    /\ startup.TG_RETRY_TIME = 2
    /\ startup.attempts = 3
    /\ startup.tg_retries = 2
    /\ startup.exc = "NetworkError"


\* C37: as long as a resolution is in the sleep that follows its 429
\* response the gate is closed, also when two resolutions were answered 429
\* at overlapping times.
C37_ClosedWhileBackoff ==
    \A i \in Slots : tasks[i].pc = "backoff" => ~api_ready


\* C38: the gate is open at the start, and open whenever no resolution is
\* in the sleep that follows a 429 response; under fair scheduling a closed
\* gate is open again later and a resolution that waits at the gate goes on
\* later.
C38_GateReopens ==
    /\ api_ready = TRUE
    /\ []((\A i \in Slots : tasks[i].pc # "backoff") => api_ready)
    /\ (api_ready = FALSE) ~> (api_ready = TRUE)
    /\ \A i \in Slots : (tasks[i].pc = "waiting") ~> (tasks[i].pc # "waiting")

\* The gate is open again after the sleep of one resolution, and the
\* resolution that waited at the closed gate has been woken.
C38_Witness ==
    \E i, j \in Slots :
        /\ api_ready
        /\ tasks[i].pc = "loop"
        /\ tasks[i].retries = 0
        /\ tasks[j].pc = "woken"


\* C39: when _find_songs returns a tuple, the result of the resolution of
\* link i, if it is a SongInfo, carries the raw URL of link i and nothing
\* else; each entry without ids of the tuple carries exactly one source URL,
\* there is one such entry for each link whose resolution failed, and the
\* source URLs of the entries of the tuple are together the raw URLs of the
\* links extracted from the message.
C39_SourceUrlsConserved ==
    (Handled /\ song_urls # <<>> /\ raised = "none" /\ ~AllNotFound) =>
        /\ \A k \in DOMAIN tasks :
               ~Failed(k) =>
                   tasks[k].result.song.urls_in_text = {song_urls[k].url}
        /\ \A k \in 1..Len(song_infos) :
               song_infos[k].ids = {} =>
                   \E j \in DOMAIN tasks :
                       /\ Failed(j)
                       /\ song_infos[k].urls_in_text = {song_urls[j].url}
        /\ Len(WithoutIds(song_infos)) =
               Cardinality({k \in DOMAIN tasks : Failed(k)})
        /\ UNION {song_infos[k].urls_in_text : k \in 1..Len(song_infos)} =
               {song_urls[k].url : k \in 1..Len(song_urls)}

\* Two links of a message were resolved to one song: the surviving entry
\* carries both source URLs.
C39_Witness ==
    /\ HandledMessage
    /\ Len(song_urls) = 2
    /\ song_urls[1].url # song_urls[2].url
    /\ Len(song_infos) = 1
    /\ song_infos[1].ids # {}
    /\ song_infos[1].urls_in_text = {song_urls[1].url, song_urls[2].url}


====
